---- MODULE Spec2Model ----
(***************************************************************************)
(* Model of the art-activity collection pipeline:                          *)
(*   - the Pipeline Runner (src/crawlers/pipeline/runner.py): batch        *)
(*     de-duplication, Source / Venue resolution and the Activity upsert,  *)
(*     run inside one database transaction;                                *)
(*   - the Source Fetchers (src/crawlers/adapters/*.py): the retry loop    *)
(*     with backoff and, for the MET adapter, the rendered-page fallback.  *)
(*                                                                         *)
(* Optional values (Python's `x | None`) are sequences of length <= 1:     *)
(* None is << >> and a present value x is << x >>.  A text that the code   *)
(* trims or upper-cases is a sequence of characters; " " is the            *)
(* whitespace character.  A URL is a sequence of lexical pieces (scheme,   *)
(* "://", host labels, path segments), so that "is a string prefix of"     *)
(* is "is a sequence prefix of".  Datetimes are integers.                  *)
(***************************************************************************)
EXTENDS Integers, Sequences, FiniteSets, TLC

VARIABLES
    univ,      \* the inputs a behaviour draws from: [urls, cands]
    store,     \* the committed database: [sources, venues, activities]
    pre,       \* the committed database before the latest invocation
    last,      \* the latest invocation of upsert_extracted_activities
    clock,     \* datetime.utcnow() of the latest invocation
    same,      \* the latest invocation repeated the one before it
    fetch,     \* one run of a fetcher (see the fetcher section)
    parse,     \* one call of an extractor function (see the extractor section)
    txns       \* the open transactions of concurrent runs

vars == <<univ, store, pre, last, clock, same, fetch, parse, txns>>

\* ------------------------------------------------------------------ bounds

\* invocations of the runner in one behaviour
MaxRuns == 2

\* candidates in one batch
MaxBatch == 2

\* the largest max_attempts a fetch is started with
MaxAttempts == 3

\* the pieces a text given to an extractor function is put together from
MaxPieces == 2

\* ------------------------------------------------------------ option values

None == << >>

Some(x) == << x >>

RECURSIVE SeqToSet(_)
SeqToSet(s) == IF s = << >> THEN {} ELSE {Head(s)} \cup SeqToSet(Tail(s))

SeqsUpTo(S, n) == UNION {[1..k -> S] : k \in 0..n}

\* ------------------------------------------------------- text normalisation

\* the whitespace characters of the inputs: space and tab
Whitespace == {" ", "\t"}

IsSpace(c) == c \in Whitespace

RECURSIVE LStrip(_)
LStrip(s) == IF s # << >> /\ IsSpace(Head(s)) THEN LStrip(Tail(s)) ELSE s

RECURSIVE RStrip(_)
RStrip(s) ==
    IF s # << >> /\ IsSpace(s[Len(s)]) THEN RStrip(SubSeq(s, 1, Len(s) - 1)) ELSE s

\* str.strip()
Strip(s) == RStrip(LStrip(s))

\* str.upper(), on the characters the inputs use
UpperChar(c) ==
    CASE c = "n" -> "N"
      [] c = "y" -> "Y"
      [] OTHER -> c

Upper(s) == [i \in 1..Len(s) |-> UpperChar(s[i])]

\* runner.py _normalize_optional_text
NormalizeOptionalText(value) ==
    IF value = None
    THEN None
    ELSE LET trimmed == Strip(value[1])
         IN  IF trimmed = << >> THEN None ELSE Some(trimmed)

\* runner.py _normalize_state
NormalizeState(value) ==
    LET text == NormalizeOptionalText(value)
    IN  IF text # None THEN Some(Upper(text[1])) ELSE None

UnknownVenue == <<"Unknown Venue">>

\* a slip: the venue name goes into the key untrimmed
VenueKeyForRawName(venue_name, location_text, city, state) ==
    IF NormalizeOptionalText(venue_name) = None /\ NormalizeOptionalText(location_text) = None
    THEN None
    ELSE Some(<<IF venue_name # None THEN venue_name[1] ELSE UnknownVenue,
                NormalizeOptionalText(city), NormalizeState(state)>>)

\* runner.py _venue_key_for: None, or Some(<<name, city, state>>)
VenueKeyFor(venue_name, location_text, city, state) ==
    LET normalized_name     == NormalizeOptionalText(venue_name)
        normalized_location == NormalizeOptionalText(location_text)
        normalized_city     == NormalizeOptionalText(city)
        normalized_state    == NormalizeState(state)
    IN  IF normalized_name = None /\ normalized_location = None
        THEN None
        ELSE Some(<<IF normalized_name # None THEN normalized_name[1] ELSE UnknownVenue,
                    normalized_city, normalized_state>>)

ItemVenueKey(item) ==
    VenueKeyFor(item.venue_name, item.location_text, item.city, item.state)

FreeStatuses == {"confirmed", "inferred", "uncertain"}

\* runner.py _to_free_status
ToFreeStatus(value) == IF value \in FreeStatuses THEN value ELSE "inferred"

\* ------------------------------------------------------------------- URLs

SchemeTokens == {"https", "file"}

HostTokens == {"a.org", "b.org", ".uk"}

\* the netloc of a URL that starts scheme "://": the host labels that follow
RECURSIVE TakeHost(_)
TakeHost(s) ==
    IF s # << >> /\ Head(s) \in HostTokens
    THEN <<Head(s)>> \o TakeHost(Tail(s))
    ELSE << >>

\* urllib.parse.urlparse, its scheme and netloc
UrlParse(url) ==
    IF Len(url) >= 2 /\ url[1] \in SchemeTokens /\ url[2] = "://"
    THEN [scheme |-> <<url[1]>>, netloc |-> TakeHost(SubSeq(url, 3, Len(url)))]
    ELSE [scheme |-> << >>, netloc |-> << >>]

\* a slip: the Source is created for the page, not for the site
DerivedBaseUrlWholeUrl(source_url) == source_url

\* runner.py:120, the base_url of a Source created for source_url
DerivedBaseUrl(source_url) ==
    LET parsed == UrlParse(source_url)
    IN  IF parsed.scheme # << >> /\ parsed.netloc # << >>
        THEN parsed.scheme \o <<"://">> \o parsed.netloc
        ELSE source_url

\* runner.py:119, the name of a Source created for source_url
DerivedName(source_url) ==
    LET parsed == UrlParse(source_url)
    IN  IF parsed.netloc # << >> THEN parsed.netloc ELSE <<"unknown_source">>

\* SQL: text LIKE concat(base_url, '%')
Like(text, base_url) ==
    /\ Len(base_url) <= Len(text)
    /\ SubSeq(text, 1, Len(base_url)) = base_url

\* ------------------------------------------------- insertion-ordered dicts

\* A Python dict, kept as the sequence of its <<key, value>> items in
\* insertion order.
DictHas(d, k) == \E i \in 1..Len(d) : d[i][1] = k

DictGet(d, k) == d[CHOOSE i \in 1..Len(d) : d[i][1] = k][2]

\* a slip: a present key keeps its first value
DictSetFirstWins(d, k, v) == IF DictHas(d, k) THEN d ELSE Append(d, <<k, v>>)

\* d[k] = v: a present key keeps its position, a new key goes last
DictSet(d, k, v) ==
    IF DictHas(d, k)
    THEN [i \in 1..Len(d) |-> IF d[i][1] = k THEN <<k, v>> ELSE d[i]]
    ELSE Append(d, <<k, v>>)

DictValues(d) == [i \in 1..Len(d) |-> d[i][2]]

\* ------------------------------------------------------ batch de-duplication

\* the identity key (a.source_url, a.title, a.start_at)
IdentityKey(a) == <<a.source_url, a.title, a.start_at>>

RECURSIVE DictOfBatch(_, _)
DictOfBatch(extracted, d) ==
    IF extracted = << >>
    THEN d
    ELSE DictOfBatch(Tail(extracted),
                     DictSet(d, IdentityKey(Head(extracted)), Head(extracted)))

\* a slip: the batch is written as it came
NoDedupe(extracted) == extracted

\* runner.py:104  list({(a.source_url, a.title, a.start_at): a for a in extracted}.values())
Dedupe(extracted) == DictValues(DictOfBatch(extracted, << >>))

\* --------------------------------------------------------------- the store

EmptyDb == [sources |-> {}, venues |-> {}, activities |-> {}]

\* the primary key the database gives the next inserted row
NextId(rows) == Cardinality(rows) + 1

MaxById(rows) == CHOOSE r \in rows : \A q \in rows : q.id <= r.id

\* runner.py:110-115: the Sources whose base_url is a prefix of source_url,
\* longest base_url first, LIMIT 1.  The result is the set of rows the
\* query may return (empty: None).
FindSource(db, source_url) ==
    LET matches == {s \in db.sources : Like(source_url, s.base_url)}
    IN  {s \in matches : \A t \in matches : Len(t.base_url) <= Len(s.base_url)}

\* runner.py:117-124
NewSource(db, source_url, adapter_type) ==
    [id              |-> NextId(db.sources),
     name            |-> DerivedName(source_url),
     base_url        |-> DerivedBaseUrl(source_url),
     adapter_type    |-> adapter_type,
     crawl_frequency |-> "daily",
     active          |-> TRUE]

\* runner.py:128-139: the Activity rows of the Source that carry one of the keys
FindActivities(db, source_id, keys) ==
    {a \in db.activities : a.source_id = source_id /\ IdentityKey(a) \in keys}

\* ------------------------------------------------------------------ venues

RECURSIVE DesiredVenues(_, _)
\* runner.py:53-60: venue key -> address, in first-seen order
DesiredVenues(extracted, desired) ==
    IF extracted = << >>
    THEN desired
    ELSE LET item      == Head(extracted)
             venue_key == ItemVenueKey(item)
             address   == NormalizeOptionalText(item.location_text)
         IN  IF venue_key = None
             THEN DesiredVenues(Tail(extracted), desired)
             ELSE IF ~DictHas(desired, venue_key[1]) \/ DictGet(desired, venue_key[1]) = None
                  THEN DesiredVenues(Tail(extracted), DictSet(desired, venue_key[1], address))
                  ELSE DesiredVenues(Tail(extracted), desired)

\* runner.py:65-69: SELECT ... WHERE venues.name IN (names)
ExistingVenues(db, desired) ==
    {v \in db.venues : \E i \in 1..Len(desired) : desired[i][1][1] = v.name}

\* runner.py:72, the key under which an existing row is filed
VenueRowKey(venue) ==
    <<venue.name, NormalizeOptionalText(venue.city), NormalizeState(venue.state)>>

RECURSIVE CreateVenuesFillsAddress(_, _, _)
\* a slip: an existing row that has no address takes the address of the batch
CreateVenuesFillsAddress(desired, existing, venues) ==
    IF desired = << >>
    THEN venues
    ELSE LET key     == Head(desired)[1]
             address == Head(desired)[2]
             found   == {v \in existing : VenueRowKey(v) = key}
         IN  IF found # {}
             THEN CreateVenuesFillsAddress(Tail(desired), existing,
                      {IF v \in found /\ v.address = None
                       THEN [v EXCEPT !.address = address] ELSE v : v \in venues})
             ELSE CreateVenuesFillsAddress(Tail(desired), existing,
                      venues \cup {[id      |-> NextId(venues),
                                    name    |-> key[1],
                                    address |-> address,
                                    city    |-> key[2],
                                    state   |-> key[3],
                                    website |-> None]})

RECURSIVE CreateVenues(_, _, _)
\* runner.py:76-92: one new row per desired key that no existing row has
CreateVenues(desired, existing, venues) ==
    IF desired = << >>
    THEN venues
    ELSE LET key     == Head(desired)[1]
             address == Head(desired)[2]
         IN  IF \E v \in existing : VenueRowKey(v) = key
             THEN CreateVenues(Tail(desired), existing, venues)
             ELSE CreateVenues(Tail(desired), existing,
                      venues \cup {[id      |-> NextId(venues),
                                    name    |-> key[1],
                                    address |-> address,
                                    city    |-> key[2],
                                    state   |-> key[3],
                                    website |-> None]})

\* runner.py:52-94 _resolve_venues: the venues table after the flush
ResolveVenues(db, extracted) ==
    LET desired == DesiredVenues(extracted, << >>)
    IN  [db EXCEPT !.venues = CreateVenues(desired, ExistingVenues(db, desired), db.venues)]

\* venues_by_key.get(venue_key): of the rows filed under the key, the one the
\* dict keeps (rows come back in primary-key order, the last one wins)
VenueByKey(db, key) ==
    LET rows == {v \in db.venues : VenueRowKey(v) = key}
    IN  IF rows = {} THEN None ELSE Some(MaxById(rows))

\* runner.py:146-147 and venue.id if venue else None
VenueIdFor(db, item) ==
    LET venue_key == ItemVenueKey(item)
        venue     == IF venue_key = None THEN None ELSE VenueByKey(db, venue_key[1])
    IN  IF venue = None THEN None ELSE Some(venue[1].id)

\* -------------------------------------------------------------- activities

\* runner.py:150-169, with the column defaults of models/activity.py
NewActivity(id, source_id, item, venue_id, now) ==
    [id                       |-> id,
     source_id                |-> source_id,
     source_url               |-> item.source_url,
     title                    |-> item.title,
     description              |-> item.description,
     activity_type            |-> item.activity_type,
     age_min                  |-> item.age_min,
     age_max                  |-> item.age_max,
     drop_in                  |-> item.drop_in,
     registration_required    |-> item.registration_required,
     start_at                 |-> item.start_at,
     end_at                   |-> item.end_at,
     timezone                 |-> item.timezone,
     location_text            |-> item.location_text,
     venue_id                 |-> venue_id,
     free_verification_status |-> ToFreeStatus(item.free_verification_status),
     is_free                  |-> TRUE,
     extraction_method        |-> "hardcoded",
     status                   |-> "active",
     confidence_score         |-> "0.8000",
     first_seen_at            |-> now,
     last_seen_at             |-> now,
     updated_at               |-> now]

\* a slip: the update stamps first_seen_at too
TouchResetsFirstSeen(row, now) ==
    [row EXCEPT !.first_seen_at = now, !.last_seen_at = now, !.updated_at = now]

\* a slip: updated_at is left at its old value
TouchOnlyLastSeen(row, now) == [row EXCEPT !.last_seen_at = now]

\* a slip: last_seen_at is left at its old value
TouchOnlyUpdatedAt(row, now) == [row EXCEPT !.updated_at = now]

\* runner.py:184-185
Touch(row, now) == [row EXCEPT !.last_seen_at = now, !.updated_at = now]

\* runner.py:173-185
UpdateActivity(current, item, venue_id, now) ==
  Touch(
    [current EXCEPT
        !.description              = item.description,
        !.activity_type            = item.activity_type,
        !.age_min                  = item.age_min,
        !.age_max                  = item.age_max,
        !.drop_in                  = item.drop_in,
        !.registration_required    = item.registration_required,
        !.end_at                   = item.end_at,
        !.timezone                 = item.timezone,
        !.location_text            = item.location_text,
        !.venue_id                 = venue_id,
        !.free_verification_status = ToFreeStatus(item.free_verification_status)],
    now)

RECURSIVE ApplyItems(_, _, _, _, _, _)
\* runner.py:143-185: the loop over the de-duplicated batch.  `existing` is
\* the lookup made before the loop; `db` carries the venues it resolved.
ApplyItems(items, existing, activities, source_id, db, now) ==
    IF items = << >>
    THEN activities
    ELSE LET item     == Head(items)
             matching == {a \in existing : IdentityKey(a) = IdentityKey(item)}
             venue_id == VenueIdFor(db, item)
         IN  IF matching = {}
             THEN ApplyItems(Tail(items), existing,
                      activities \cup
                          {NewActivity(NextId(activities), source_id, item, venue_id, now)},
                      source_id, db, now)
             ELSE LET current == MaxById(matching)
                  IN  ApplyItems(Tail(items), existing,
                          {IF a.id = current.id
                           THEN UpdateActivity(a, item, venue_id, now)
                           ELSE a : a \in activities},
                          source_id, db, now)

\* ------------------------------------------------ one invocation, by stage

\* runner.py:110-126: the Source rows the invocation may end up using: the
\* one the query returns, or the row it creates when the query returns None
SourceChoices(db, source_url, adapter_type) ==
    IF FindSource(db, source_url) = {}
    THEN {NewSource(db, source_url, adapter_type)}
    ELSE FindSource(db, source_url)

\* runner.py:125-126: the session after db.add(source); db.flush()
AfterSource(db, source) == [db EXCEPT !.sources = @ \cup {source}]

\* runner.py:141: the session after _resolve_venues
AfterVenues(db, source, deduped) == ResolveVenues(AfterSource(db, source), deduped)

\* runner.py:128-185: the session once the first k items of the batch are applied
AfterItems(db, source, deduped, now, k) ==
    LET s1       == AfterSource(db, source)
        keys     == {IdentityKey(deduped[i]) : i \in 1..Len(deduped)}
        existing == FindActivities(s1, source.id, keys)
        s2       == AfterVenues(db, source, deduped)
    IN  [s2 EXCEPT !.activities =
            ApplyItems(SubSeq(deduped, 1, k), existing, @, source.id, s2, now)]

\* runner.py:187 db.commit(): the session's writes become the committed store
Commit(committed, session) == session

\* a slip: a session in autocommit mode, whose flushed writes stay
KeepsFlushed(committed, session) == session

\* runner.py:109 and db/session.py:12: leaving `with SessionLocal() as db`
\* on an exception closes a session that was never committed (autocommit
\* is off), which rolls its transaction back
CloseUncommitted(committed, session) == committed

FailPoints == {"source", "venue", "activity", "commit"}

\* the session at the moment the invocation fails
SessionAtFailure(db, source, deduped, now, failAt, k) ==
    CASE failAt = "source"   -> db
      [] failAt = "venue"    -> AfterSource(db, source)
      [] failAt = "activity" -> AfterItems(db, source, deduped, now, k)
      [] failAt = "commit"   -> AfterItems(db, source, deduped, now, Len(deduped))

\* ------------------------------------------------------------------ inputs

EventUrl1 == <<"https", "://", "a.org", "/e1">>

EventUrl2 == <<"https", "://", "a.org", "/e2">>

\* a candidate record (pipeline/types.py ExtractedActivity); the variant v
\* fixes the fields the venue logic does not read
Cand(u, t, s, v, venue_name, location_text, city, state) ==
    [source_url               |-> u,
     title                    |-> t,
     start_at                 |-> s,
     description              |-> IF v = 1 THEN Some("d1") ELSE None,
     venue_name               |-> venue_name,
     location_text            |-> location_text,
     city                     |-> city,
     state                    |-> state,
     activity_type            |-> IF v = 1 THEN Some("workshop") ELSE Some("class"),
     age_min                  |-> IF v = 1 THEN Some(13) ELSE None,
     age_max                  |-> IF v = 1 THEN Some(17) ELSE Some(12),
     drop_in                  |-> IF v = 1 THEN Some(TRUE) ELSE None,
     registration_required    |-> IF v = 1 THEN Some(FALSE) ELSE Some(TRUE),
     end_at                   |-> IF v = 1 THEN Some(s + 1) ELSE None,
     timezone                 |-> IF v = 1 THEN "America/New_York" ELSE "America/Los_Angeles",
     free_verification_status |-> IF v = 1 THEN "confirmed" ELSE "free?"]

Met == Some(<<"M", "e", "t">>)

Nyc == Some(<<"N", "Y", "C">>)

\* identity keys that differ in one component each, and a second candidate
\* (UpsertB) for the key of UpsertA
UpsertA == Cand(EventUrl1, "T1", 1, 1, Met, Some(<<"A">>), Nyc, Some(<<"N", "Y">>))

UpsertB == Cand(EventUrl1, "T1", 1, 2, None, None, None, None)

UpsertC == Cand(EventUrl1, "T1", 2, 2, Met, Some(<<"B">>), Nyc, Some(<<"N", "Y">>))

UpsertD == Cand(EventUrl1, "T2", 1, 1, None, None, None, None)

UpsertE == Cand(EventUrl2, "T1", 1, 2, None, Some(<<"A">>), None, None)

\* candidates whose venue fields need trimming and upper-casing, with and
\* without a name and a location text; VenueF has the identity key of VenueA
VenueA == Cand(EventUrl1, "W1", 1, 1, Some(<<" ", "M", "e", "t">>), None, Nyc, Some(<<"n", "y">>))

VenueB == Cand(EventUrl1, "W2", 1, 1, Met, Some(<<" ", "A", " ">>), Some(<<"N", "Y", "C", " ">>), Some(<<"N", "Y">>))

VenueC == Cand(EventUrl1, "W3", 1, 1, Met, Some(<<"B">>), Nyc, Some(<<"N", "Y", " ">>))

VenueD == Cand(EventUrl1, "W4", 1, 1, None, Some(<<"B">>), None, None)

VenueE == Cand(EventUrl1, "W5", 1, 1, Some(<<" ">>), Some(<< >>), None, None)

VenueF == Cand(EventUrl1, "W1", 1, 2, Met, Some(<<"C">>), Nyc, Some(<<"N", "Y">>))

UrlAx == <<"https", "://", "a.org", "/x">>

UrlAy == <<"https", "://", "a.org", "/y">>

UrlBx == <<"https", "://", "b.org", "/x">>

UrlAukx == <<"https", "://", "a.org", ".uk", "/x">>

\* a URL with a scheme and no host
UrlFileX == <<"file", "://", "/x">>

UrlFileY == <<"file", "://", "/y">>

\* Each behaviour draws its URLs and candidates from one of these.  `longer`
\* says how many invocations beyond MaxRuns its behaviours make, `batch` caps
\* the length of its batches.
Universes ==
    {[name |-> "keys", urls |-> {UrlAx, UrlBx}, longer |-> 0, batch |-> MaxBatch,
      cands |-> {UpsertA, UpsertB, UpsertC}],
     [name |-> "key parts", urls |-> {UrlAx}, longer |-> 0, batch |-> MaxBatch,
      cands |-> {UpsertA, UpsertD, UpsertE}],
     [name |-> "one venue", urls |-> {UrlAx}, longer |-> 0, batch |-> MaxBatch,
      cands |-> {VenueA, VenueB, VenueC}],
     [name |-> "no name", urls |-> {UrlAx}, longer |-> 0, batch |-> MaxBatch,
      cands |-> {VenueD, VenueE, VenueC}],
     [name |-> "venue order", urls |-> {UrlAx}, longer |-> 0, batch |-> MaxBatch,
      cands |-> {VenueA, VenueF, VenueB}],
     [name |-> "sources", longer |-> 1, batch |-> 1,
      urls |-> {UrlAx, UrlAy, UrlAukx, UrlFileX, UrlFileY},
      cands |-> {UpsertA}]}

\* The inputs of the behaviours in which an invocation may fail.
FailUniverses ==
    {[name |-> "failures", urls |-> {UrlAx, UrlBx}, longer |-> 0, batch |-> MaxBatch,
      cands |-> {UpsertA, UpsertB}]}

Batches == SeqsUpTo(univ.cands, univ.batch)

MayRun == clock < MaxRuns + univ.longer

\* ------------------------------------------------------------- the runner

NoRun ==
    [ok |-> FALSE, failAt |-> "never run", url |-> << >>, batch |-> << >>,
     ret |-> << >>, now |-> 0, source_id |-> 0, wrote |-> FALSE]

FetchIdle == [pc |-> "idle"]

\* no extractor function is being called
ParseIdle == [pc |-> "idle"]

\* no run has a transaction open
NoTxns == << >>

Init ==
    /\ univ \in Universes
    /\ store = EmptyDb
    /\ pre = EmptyDb
    /\ last = NoRun
    /\ clock = 0
    /\ same = FALSE
    /\ fetch = FetchIdle
    /\ parse = ParseIdle
    /\ txns = NoTxns

\* runner.py:97-189 upsert_extracted_activities, an invocation that returns
Upsert(source_url, extracted, adapter_type) ==
    /\ MayRun
    /\ LET deduped == Dedupe(extracted)
           now     == clock + 1
       IN  IF deduped = << >>
           THEN /\ store' = store
                /\ last' = [ok |-> TRUE, failAt |-> "none", url |-> source_url,
                            batch |-> extracted, ret |-> deduped, now |-> now,
                            source_id |-> 0, wrote |-> FALSE]
           ELSE \E source \in SourceChoices(store, source_url, adapter_type) :
                /\ store' = Commit(store,
                                AfterItems(store, source, deduped, now, Len(deduped)))
                /\ last' = [ok |-> TRUE, failAt |-> "none", url |-> source_url,
                            batch |-> extracted, ret |-> deduped, now |-> now,
                            source_id |-> source.id, wrote |-> TRUE]
    /\ pre' = store
    /\ clock' = clock + 1
    /\ same' = (last.ok /\ last.url = source_url /\ last.batch = extracted)
    /\ UNCHANGED <<univ, fetch, parse, txns>>

\* runner.py:108-187 upsert_extracted_activities, an invocation that raises
\* inside the session block
UpsertFails(source_url, extracted, adapter_type, failAt) ==
    /\ MayRun
    /\ Dedupe(extracted) # << >>
    /\ LET deduped == Dedupe(extracted)
           now     == clock + 1
       IN  \E source \in SourceChoices(store, source_url, adapter_type) :
           \E k \in 0..(Len(deduped) - 1) :
               LET session == SessionAtFailure(store, source, deduped, now, failAt, k)
               IN  /\ store' = CloseUncommitted(store, session)
                   /\ last' = [ok |-> FALSE, failAt |-> failAt, url |-> source_url,
                               batch |-> extracted, ret |-> << >>, now |-> now,
                               source_id |-> source.id, wrote |-> session # store]
    /\ pre' = store
    /\ clock' = clock + 1
    /\ same' = FALSE
    /\ UNCHANGED <<univ, fetch, parse, txns>>

Next == \E u \in univ.urls, b \in Batches : Upsert(u, b, "static_html")

\* sequential invocations of the runner, each of which returns
Spec == Init /\ [][Next]_vars

InitFail ==
    /\ univ \in FailUniverses
    /\ store = EmptyDb
    /\ pre = EmptyDb
    /\ last = NoRun
    /\ clock = 0
    /\ same = FALSE
    /\ fetch = FetchIdle
    /\ parse = ParseIdle
    /\ txns = NoTxns

NextFail ==
    \/ \E u \in univ.urls, b \in Batches : Upsert(u, b, "static_html")
    \/ \E u \in univ.urls, b \in Batches, p \in FailPoints :
           UpsertFails(u, b, "static_html", p)

\* sequential invocations of the runner, each of which returns or raises
FailSpec == InitFail /\ [][NextFail]_vars

\* ------------------------------------------------- properties of the runner

\* the latest invocation returned after writing a non-empty batch
RanOk == last.ok /\ last.ret # << >>

BatchKeys == {IdentityKey(last.batch[i]) : i \in 1..Len(last.batch)}

\* p is a prefix of s
IsPrefix(p, s) == \E k \in 0..Len(s) : SubSeq(s, 1, k) = p

\* the Activity rows of db that the Source `source_id` has under identity key k
RowsOf(db, source_id, k) ==
    {a \in db.activities : a.source_id = source_id /\ IdentityKey(a) = k}

Ids(rows) == {r.id : r \in rows}

\* C1: when an invocation repeats the one before it (same source URL, same
\* batch, both returned), the second inserts no Activity, Source or Venue
\* row, leaves one Activity row per identity key of the batch in the Source
\* the runs resolve to, keeps every row's first_seen_at, and sets
\* last_seen_at of the batch's rows to the time of the second run.
IdempotentUpsert ==
    (same /\ RanOk) =>
        /\ Ids(store.activities) = Ids(pre.activities)
        /\ store.sources = pre.sources
        /\ store.venues = pre.venues
        /\ \A k \in BatchKeys : Cardinality(RowsOf(store, last.source_id, k)) = 1
        /\ \A a \in store.activities : \A b \in pre.activities :
               a.id = b.id => a.first_seen_at = b.first_seen_at
        /\ \A k \in BatchKeys : \A a \in RowsOf(store, last.source_id, k) :
               /\ a.last_seen_at = last.now
               /\ a.first_seen_at < last.now

IdempotentUpsertWitness ==
    /\ same
    /\ RanOk
    /\ Len(last.batch) >= 2
    /\ \E k \in BatchKeys : \E a \in RowsOf(store, last.source_id, k) :
           a.first_seen_at + 1 = a.last_seen_at

\* C2: no two Activity rows have the same (source_id, source_url, title,
\* start_at).
IdentityKeyUnique ==
    \A a \in store.activities : \A b \in store.activities :
        (a.source_id = b.source_id /\ IdentityKey(a) = IdentityKey(b)) => a.id = b.id

\* a batch that names a key twice was written over an existing row of that key
IdentityKeyUniqueWitness ==
    /\ RanOk
    /\ Len(last.ret) < Len(last.batch)
    /\ \E k \in BatchKeys :
           /\ RowsOf(pre, last.source_id, k) # {}
           /\ RowsOf(store, last.source_id, k) # {}

\* C3: an invocation that fails leaves the committed store as it was.
FailedRunChangesNothing ==
    (~last.ok /\ last.failAt \in FailPoints) => store = pre

\* the commit failed after the session had written to a non-empty store
FailedRunChangesNothingWitness ==
    /\ ~last.ok
    /\ last.failAt = "commit"
    /\ last.wrote
    /\ pre.activities # {}

\* the fields of a candidate that insert and update both write
SameMutableFields(a, c) ==
    /\ a.description = c.description
    /\ a.activity_type = c.activity_type
    /\ a.age_min = c.age_min
    /\ a.age_max = c.age_max
    /\ a.drop_in = c.drop_in
    /\ a.registration_required = c.registration_required
    /\ a.end_at = c.end_at
    /\ a.timezone = c.timezone
    /\ a.location_text = c.location_text
    /\ a.free_verification_status =
           (IF c.free_verification_status \in {"confirmed", "inferred", "uncertain"}
            THEN c.free_verification_status ELSE "inferred")

\* C4: the invocation returns one candidate per distinct identity key of the
\* batch, the last occurrence of each key, whatever the store held, and the
\* store then holds that candidate under the key.
ReturnsLastPerKey ==
    last.ok =>
        /\ \A i \in 1..Len(last.batch) :
               Cardinality({j \in 1..Len(last.ret) :
                   IdentityKey(last.ret[j]) = IdentityKey(last.batch[i])}) = 1
        /\ \A j \in 1..Len(last.ret) : \E i \in 1..Len(last.batch) :
               /\ last.ret[j] = last.batch[i]
               /\ \A h \in (i + 1)..Len(last.batch) :
                      IdentityKey(last.batch[h]) # IdentityKey(last.batch[i])
        /\ \A j \in 1..Len(last.ret) :
               LET rows == RowsOf(store, last.source_id, IdentityKey(last.ret[j]))
               IN  /\ Cardinality(rows) = 1
                   /\ \A a \in rows : SameMutableFields(a, last.ret[j])

\* a batch with two different candidates of one key, run on a non-empty store
ReturnsLastPerKeyWitness ==
    /\ RanOk
    /\ pre.activities # {}
    /\ \E i \in 1..Len(last.batch) : \E h \in (i + 1)..Len(last.batch) :
           /\ IdentityKey(last.batch[i]) = IdentityKey(last.batch[h])
           /\ last.batch[i] # last.batch[h]

\* the normalized (venue_name, city, state) of a candidate
NormalizedTriple(c) ==
    <<NormalizeOptionalText(c.venue_name), NormalizeOptionalText(c.city),
      NormalizeState(c.state)>>

\* the Activity row the latest invocation wrote for candidate c
RowFor(c) == CHOOSE a \in RowsOf(store, last.source_id, IdentityKey(c)) : TRUE

\* the candidates of the de-duplicated batch, by position, that G holds of
Positions(G(_)) == {i \in 1..Len(last.ret) : G(last.ret[i])}

\* the trimmed location text of the first candidate at one of the positions
\* that has a non-empty one; None when none has
FirstAddress(positions) ==
    LET filled == {i \in positions :
                      NormalizeOptionalText(last.ret[i].location_text) # None}
    IN  IF filled = {}
        THEN None
        ELSE NormalizeOptionalText(
                 last.ret[CHOOSE i \in filled : \A j \in filled : i <= j].location_text)

\* C5 as stated: candidates of one run with the same normalized (venue_name,
\* city, state) are attached to the same Venue row, whose address, when the
\* run created the row, is the first non-empty location text among them.
SameTripleSameVenue ==
    RanOk =>
        \A i \in 1..Len(last.ret) : \A j \in 1..Len(last.ret) :
            NormalizedTriple(last.ret[i]) = NormalizedTriple(last.ret[j]) =>
                /\ RowFor(last.ret[i]).venue_id = RowFor(last.ret[j]).venue_id
                /\ \A v \in store.venues \ pre.venues :
                       RowFor(last.ret[i]).venue_id = Some(v.id) =>
                           LET SameTriple(c) ==
                                   NormalizedTriple(c) = NormalizedTriple(last.ret[i])
                           IN  v.address = FirstAddress(Positions(SameTriple))

\* the venue key of a candidate: its normalized (venue_name, city, state)
\* with "Unknown Venue" for a missing name; a candidate that has neither a
\* venue_name nor a location text has no venue key
HasVenueKey(c) ==
    \/ NormalizeOptionalText(c.venue_name) # None
    \/ NormalizeOptionalText(c.location_text) # None

VenueKeyTriple(c) ==
    <<IF NormalizeOptionalText(c.venue_name) = None
      THEN <<"Unknown Venue">>
      ELSE NormalizeOptionalText(c.venue_name)[1],
      NormalizeOptionalText(c.city), NormalizeState(c.state)>>

\* C5, amended: candidates of one run with the same venue key are attached
\* to the same Venue row, the row of that (name, city, state); when the run
\* created the row, its address is the first non-empty trimmed location
\* text among them, in the order of the de-duplicated batch.  A candidate
\* with no venue key is attached to no Venue.
SameVenueKeySameVenue ==
    RanOk =>
        \A i \in 1..Len(last.ret) :
            IF ~HasVenueKey(last.ret[i])
            THEN RowFor(last.ret[i]).venue_id = None
            ELSE \E v \in store.venues :
                    /\ RowFor(last.ret[i]).venue_id = Some(v.id)
                    /\ <<v.name, v.city, v.state>> = VenueKeyTriple(last.ret[i])
                    /\ \A j \in 1..Len(last.ret) :
                           (/\ HasVenueKey(last.ret[j])
                            /\ VenueKeyTriple(last.ret[j]) = VenueKeyTriple(last.ret[i]))
                               => RowFor(last.ret[j]).venue_id = Some(v.id)
                    /\ v \notin pre.venues =>
                           LET SameKey(c) ==
                                   /\ HasVenueKey(c)
                                   /\ VenueKeyTriple(c) = VenueKeyTriple(last.ret[i])
                           IN  v.address = FirstAddress(Positions(SameKey))

\* two candidates of one venue key with different location texts, the first
\* of them without one, attached to a Venue row that the run created
SameVenueKeySameVenueWitness ==
    /\ RanOk
    /\ \E i \in 1..Len(last.ret) : \E j \in (i + 1)..Len(last.ret) :
           /\ HasVenueKey(last.ret[i])
           /\ HasVenueKey(last.ret[j])
           /\ VenueKeyTriple(last.ret[i]) = VenueKeyTriple(last.ret[j])
           /\ NormalizeOptionalText(last.ret[i].location_text) = None
           /\ NormalizeOptionalText(last.ret[j].location_text) # None
           /\ \E v \in store.venues \ pre.venues :
                  /\ RowFor(last.ret[i]).venue_id = Some(v.id)
                  /\ v.address # None

\* scheme://host of a URL
SchemeHost(url) == UrlParse(url).scheme \o <<"://">> \o UrlParse(url).netloc

HasSchemeAndHost(url) == UrlParse(url).scheme # << >> /\ UrlParse(url).netloc # << >>

\* the Sources, before the latest invocation, whose base_url is a prefix of
\* its source URL
PrefixSources == {s \in pre.sources : IsPrefix(s.base_url, last.url)}

\* the invocation used an existing Source, the one with the longest base_url
\* that is a prefix of its source URL, and created none
UsedLongestPrefix ==
    /\ store.sources = pre.sources
    /\ \E s \in PrefixSources :
           /\ s.id = last.source_id
           /\ \A t \in PrefixSources : Len(t.base_url) <= Len(s.base_url)

\* the invocation created one Source, with this base_url, and used it
CreatedSource(base_url) ==
    \E s \in store.sources :
        /\ s \notin pre.sources
        /\ store.sources = pre.sources \cup {s}
        /\ s.id = last.source_id
        /\ s.base_url = base_url

UpdateKeepsIdentity ==
    RanOk =>
        \A b \in pre.activities :
            IF b.source_id = last.source_id /\ IdentityKey(b) \in BatchKeys
            THEN \E a \in store.activities : \E j \in 1..Len(last.ret) :
                    /\ a.id = b.id
                    /\ IdentityKey(last.ret[j]) = IdentityKey(b)
                    /\ a.source_id = b.source_id
                    /\ a.source_url = b.source_url
                    /\ a.title = b.title
                    /\ a.start_at = b.start_at
                    /\ a.first_seen_at = b.first_seen_at
                    /\ a.is_free = b.is_free
                    /\ a.status = b.status
                    /\ a.extraction_method = b.extraction_method
                    /\ a.confidence_score = b.confidence_score
                    /\ SameMutableFields(a, last.ret[j])
                    /\ IF HasVenueKey(last.ret[j])
                       THEN \E v \in store.venues :
                               /\ a.venue_id = Some(v.id)
                               /\ <<v.name, v.city, v.state>> = VenueKeyTriple(last.ret[j])
                       ELSE a.venue_id = None
                    /\ a.last_seen_at = last.now
                    /\ a.updated_at = last.now
            ELSE b \in store.activities

\* a run updated a row of an earlier run with a candidate that differs from
\* the row in every mutable field, next to a row it did not touch
UpdateKeepsIdentityWitness ==
    /\ RanOk
    /\ \E b \in pre.activities : \E j \in 1..Len(last.ret) :
           /\ b.source_id = last.source_id
           /\ IdentityKey(last.ret[j]) = IdentityKey(b)
           /\ b.description # last.ret[j].description
           /\ b.timezone # last.ret[j].timezone
           /\ b.venue_id # None
           /\ ~HasVenueKey(last.ret[j])
           /\ b.first_seen_at < last.now
    /\ \E b \in pre.activities : b \in store.activities

\* ------------------------------------------------------------ the fetchers

\* fetch_mfa_events_page, fetch_moma_events_page and fetch_whitney_events_page
\* are the same code; fetch_met_events_page adds the rendered-page fallback.
Adapters == {"mfa", "moma", "whitney", "met"}

RetryStatuses == {429, 500, 502, 503, 504}

\* a slip: every error status is retried
IsRetryStatusAnyError(status) == status >= 400

\* mfa.py:83  response.status_code in (429, 500, 502, 503, 504)
IsRetryStatus(status) == status \in RetryStatuses

\* a slip: the last attempt is retried too
MayRetryAlways(attempt, max_attempts) == attempt <= max_attempts

\* mfa.py:71 and mfa.py:83  attempt < max_attempts
MayRetry(attempt, max_attempts) == attempt < max_attempts

RECURSIVE Pow2(_)
Pow2(n) == IF n <= 0 THEN 1 ELSE 2 * Pow2(n - 1)

\* a slip: the exponent starts at 1
BackoffFromAttempt(base_backoff_seconds, attempt) == base_backoff_seconds * Pow2(attempt)

\* mfa.py:72 and mfa.py:88  base_backoff_seconds * (2 ** (attempt - 1))
Backoff(base_backoff_seconds, attempt) == base_backoff_seconds * Pow2(attempt - 1)

Digits == {"0", "1", "2", "3", "4", "5", "6", "7", "8", "9"}

\* U+00B2, one of the characters str.isdigit() accepts and float() rejects
Superscript2 == "superscript 2"

DigitValue(c) ==
    CASE c = "0" -> 0 [] c = "1" -> 1 [] c = "2" -> 2 [] c = "3" -> 3 [] c = "4" -> 4
      [] c = "5" -> 5 [] c = "6" -> 6 [] c = "7" -> 7 [] c = "8" -> 8 [] c = "9" -> 9

\* str.isdigit(): a non-empty text of characters of the digit class
IsDigit(text) ==
    text # << >> /\ \A i \in 1..Len(text) : text[i] \in Digits \cup {Superscript2}

\* float(text) of a text that passed isdigit() raises ValueError unless
\* every character is a decimal digit
FloatRaises(text) == \E i \in 1..Len(text) : text[i] \notin Digits

\* mfa.py:85  retry_after and retry_after.isdigit()
RetryAfterIsDigit(retry_after) ==
    retry_after # None /\ retry_after[1] # << >> /\ IsDigit(retry_after[1])

RECURSIVE ToNumber(_)
\* float(retry_after) of a text of digits
ToNumber(text) ==
    IF text = << >>
    THEN 0
    ELSE 10 * ToNumber(SubSeq(text, 1, Len(text) - 1)) + DigitValue(text[Len(text)])

\* mfa.py:84-88: the wait after a retriable status
WaitSeconds(retry_after, base_backoff_seconds, attempt) ==
    IF RetryAfterIsDigit(retry_after)
    THEN ToNumber(retry_after[1])
    ELSE Backoff(base_backoff_seconds, attempt)

\* what one client.get(url) may produce: a transport error (httpx.HTTPError)
\* or a response with a status and, possibly, a Retry-After header
RetryAfterHeaders ==
    {None, Some(<< >>), Some(<<"1", "2">>), Some(<<"7", "s">>), Some(<<Superscript2>>)}

Outcomes ==
    {[kind |-> "error", status |-> 0, retry_after |-> None]}
    \cup {[kind |-> "response", status |-> st, retry_after |-> h] :
             st \in {200, 400, 404}, h \in {None, Some(<<"1", "2">>)}}
    \cup {[kind |-> "response", status |-> st, retry_after |-> h] :
             st \in {429, 503}, h \in RetryAfterHeaders}

GetEvent(attempt, o) ==
    [e |-> "get", attempt |-> attempt, kind |-> o.kind, status |-> o.status,
     retry_after |-> o.retry_after]

SleepEvent(seconds) == [e |-> "sleep", seconds |-> seconds]

RenderEvent(ok) == [e |-> "render", ok |-> ok]

\* a fetch as it is called; a loop over range(1, max_attempts + 1) that has
\* no attempt to make is over at once
FetchStart(adapter, max_attempts, base_backoff_seconds, use_playwright_fallback) ==
    [pc                      |-> IF 1 <= max_attempts THEN "loop" ELSE "after loop",
     adapter                 |-> adapter,
     max_attempts            |-> max_attempts,
     base_backoff_seconds    |-> base_backoff_seconds,
     use_playwright_fallback |-> use_playwright_fallback,
     attempt                 |-> 1,
     last_exception          |-> "none",
     last_response           |-> None,
     events                  |-> << >>,
     result                  |-> "none"]

NoUniverse == [name |-> "none", urls |-> {}, longer |-> 0, batch |-> 0, cands |-> {}]

FetchInit ==
    /\ univ = NoUniverse
    /\ store = EmptyDb
    /\ pre = EmptyDb
    /\ last = NoRun
    /\ clock = 0
    /\ same = FALSE
    /\ fetch \in {FetchStart(a, m, b, f) :
                     a \in Adapters, m \in 0..MaxAttempts, b \in {2, 3}, f \in BOOLEAN}
    /\ (fetch.adapter # "met" => fetch.use_playwright_fallback = FALSE)
    /\ parse = ParseIdle
    /\ txns = NoTxns

\* `continue`: the next attempt, or the end of the loop when there is none
NextIteration(f) ==
    [f EXCEPT !.attempt = @ + 1,
              !.pc = IF f.attempt + 1 <= f.max_attempts THEN "loop" ELSE "after loop"]

\* asyncio.sleep(seconds) and `continue`
SleepAndRetry(f, seconds) ==
    NextIteration([f EXCEPT !.events = Append(@, SleepEvent(seconds))])

\* mfa.py:70-76: a transport error
AfterTransportError(f) ==
    LET failed == [f EXCEPT !.last_exception = "transport"]
    IN  IF MayRetry(f.attempt, f.max_attempts)
        THEN SleepAndRetry(failed, Backoff(f.base_backoff_seconds, f.attempt))
        ELSE [failed EXCEPT !.pc = "after loop"]

\* mfa.py:84-94: a retriable status before the last attempt; float() of a
\* header it cannot read raises ValueError out of the fetch
AfterRetryStatus(f, retry_after) ==
    IF RetryAfterIsDigit(retry_after) /\ FloatRaises(retry_after[1])
    THEN [f EXCEPT !.pc = "done", !.result = "value error"]
    ELSE SleepAndRetry(f, WaitSeconds(retry_after, f.base_backoff_seconds, f.attempt))

\* mfa.py:64-96 (moma.py:65-97, whitney.py:57-89): one iteration of the loop
AttemptStep(f, o) ==
    LET sent == [f EXCEPT !.events = Append(@, GetEvent(f.attempt, o))]
    IN  IF o.kind = "error"
        THEN AfterTransportError(sent)
        ELSE IF o.status < 400
        THEN [sent EXCEPT !.pc = "done", !.result = "html"]
        ELSE IF IsRetryStatus(o.status) /\ MayRetry(f.attempt, f.max_attempts)
        THEN AfterRetryStatus(sent, o.retry_after)
        ELSE [sent EXCEPT !.pc = "done", !.result = "status error"]

\* a slip: a response below 400 ends the loop without returning, so the
\* fetch goes on to the rendered-page fallback
MetAttemptStepFallsThrough(f, o) ==
    LET sent == [f EXCEPT !.events = Append(@, GetEvent(f.attempt, o))]
    IN  IF o.kind = "error"
        THEN AfterTransportError(sent)
        ELSE LET got == [sent EXCEPT !.last_response = Some(o.status)]
             IN  IF IsRetryStatus(o.status) /\ MayRetry(f.attempt, f.max_attempts)
                 THEN AfterRetryStatus(got, o.retry_after)
                 ELSE [got EXCEPT !.pc = "after loop"]

\* met.py:58-96: one iteration of the loop of the MET fetcher
MetAttemptStep(f, o) ==
    LET sent == [f EXCEPT !.events = Append(@, GetEvent(f.attempt, o))]
    IN  IF o.kind = "error"
        THEN AfterTransportError(sent)
        ELSE LET got == [sent EXCEPT !.last_response = Some(o.status)]
             IN  IF o.status < 400
                 THEN [got EXCEPT !.pc = "done", !.result = "html"]
                 ELSE IF IsRetryStatus(o.status) /\ MayRetry(f.attempt, f.max_attempts)
                 THEN AfterRetryStatus(got, o.retry_after)
                 ELSE [got EXCEPT !.pc = "after loop"]

Pipeline == <<univ, store, pre, last, clock, same>>

Attempt(o) ==
    /\ fetch.pc = "loop"
    /\ fetch.adapter # "met"
    /\ fetch' = AttemptStep(fetch, o)
    /\ UNCHANGED <<Pipeline, parse, txns>>

MetAttempt(o) ==
    /\ fetch.pc = "loop"
    /\ fetch.adapter = "met"
    /\ fetch' = MetAttemptStep(fetch, o)
    /\ UNCHANGED <<Pipeline, parse, txns>>

\* mfa.py:98-100: the loop ended without a return or a status error
RaiseAfterLoop ==
    /\ fetch.pc = "after loop"
    /\ fetch.adapter # "met"
    /\ fetch' = [fetch EXCEPT
           !.pc = "done",
           !.result = IF fetch.last_exception # "none"
                      THEN "error from last exception" ELSE "error after retries"]
    /\ UNCHANGED <<Pipeline, parse, txns>>

\* met.py:98-106: the rendered-page fallback, which returns HTML or raises
MetFallback(ok) ==
    /\ fetch.pc = "after loop"
    /\ fetch.adapter = "met"
    /\ fetch.use_playwright_fallback
    /\ fetch' = IF ok
                THEN [fetch EXCEPT !.events = Append(@, RenderEvent(TRUE)),
                                   !.pc = "done", !.result = "rendered html"]
                ELSE [fetch EXCEPT !.events = Append(@, RenderEvent(FALSE)),
                                   !.pc = "raise", !.last_exception = "playwright"]
    /\ UNCHANGED <<Pipeline, parse, txns>>

\* met.py:108-113: the errors the MET fetcher ends with
MetRaise ==
    /\ fetch.adapter = "met"
    /\ \/ fetch.pc = "raise"
       \/ fetch.pc = "after loop" /\ ~fetch.use_playwright_fallback
    /\ fetch' = [fetch EXCEPT
           !.pc = "done",
           !.result = IF fetch.last_response # None THEN "status error"
                      ELSE IF fetch.last_exception # "none"
                      THEN "error from last exception" ELSE "error after retries"]
    /\ UNCHANGED <<Pipeline, parse, txns>>

FetchNext ==
    \/ \E o \in Outcomes : Attempt(o)
    \/ \E o \in Outcomes : MetAttempt(o)
    \/ RaiseAfterLoop
    \/ \E ok \in BOOLEAN : MetFallback(ok)
    \/ MetRaise

\* One fetch.  Every step of a fetch ends: the HTTP client and the browser
\* give up after a timeout and a sleep lasts a finite time.
FetchSpec == FetchInit /\ [][FetchNext]_vars /\ WF_vars(FetchNext)

\* ------------------------------------------------ properties of a fetch

Fetching == fetch.pc # "idle"

Ev == fetch.events

Gets == {i \in 1..Len(Ev) : Ev[i].e = "get"}

\* an attempt that failed in a way the fetchers retry
IsRetriableFailure(ev) ==
    ev.e = "get" /\ (ev.kind = "error" \/ ev.status \in RetryStatuses)

\* an attempt answered with an error status the fetchers do not retry
IsFatalStatus(ev) ==
    ev.e = "get" /\ ev.kind = "response" /\ ev.status >= 400 /\ ev.status \notin RetryStatuses

OnlyDecimalDigits(text) == text # << >> /\ \A i \in 1..Len(text) : text[i] \in Digits

RECURSIVE DecimalNumber(_)
DecimalNumber(text) ==
    IF text = << >> THEN 0
    ELSE 10 * DecimalNumber(SubSeq(text, 1, Len(text) - 1)) + DigitValue(text[Len(text)])

\* the sleep the retry rule prescribes after the failed attempt ev
PrescribedSleep(ev) ==
    IF ev.kind = "response" /\ ev.retry_after # None /\ OnlyDecimalDigits(ev.retry_after[1])
    THEN DecimalNumber(ev.retry_after[1])
    ELSE fetch.base_backoff_seconds * Pow2(ev.attempt - 1)

\* C8: in every fetcher a retriable failure (a transport error or a status
\* in {429,500,502,503,504}) of attempt k < max_attempts is followed by
\* exactly one sleep and then by attempt k+1; the sleep is the number in the
\* Retry-After header when the failure is a response whose header consists
\* only of digits, and base * 2^(k-1) otherwise.
RetrySleepsOnce ==
    Fetching =>
      \A i \in 1..Len(Ev) :
        (IsRetriableFailure(Ev[i]) /\ Ev[i].attempt < fetch.max_attempts) =>
          /\ i + 1 <= Len(Ev)
          /\ Ev[i + 1] = SleepEvent(PrescribedSleep(Ev[i]))
          /\ IF i + 1 = Len(Ev)
             THEN fetch.pc = "loop" /\ fetch.attempt = Ev[i].attempt + 1
             ELSE Ev[i + 2].e = "get" /\ Ev[i + 2].attempt = Ev[i].attempt + 1

\* A 503 whose Retry-After is a digit character float() rejects ends the
\* fetch with a ValueError: no sleep and no further attempt.
RetryAfterRejected ==
    /\ Fetching
    /\ fetch.result = "value error"
    /\ Len(Ev) = 1
    /\ Ev[1].status = 503
    /\ Ev[1].retry_after = Some(<<Superscript2>>)
    /\ fetch.max_attempts >= 2

\* C9: a fetch terminates whatever the server answers: it sends at most
\* max_attempts HTTP requests, every sleep is followed by another attempt
\* (none comes after the last one), and it ends with HTML or with an error.
FetchTerminates ==
    /\ [](Fetching =>
            /\ Cardinality(Gets) <= fetch.max_attempts
            /\ \A i \in 1..Len(Ev) :
                 Ev[i].e = "sleep" =>
                   IF i = Len(Ev) THEN fetch.pc = "loop" ELSE Ev[i + 1].e = "get"
            /\ (fetch.pc = "done") = (fetch.result # "none"))
    /\ <>(fetch.pc = "done")

\* every attempt allowed was made and failed, and the fetch ended with an error
FetchTerminatesWitness ==
    /\ Fetching
    /\ fetch.pc = "done"
    /\ fetch.max_attempts >= 2
    /\ Cardinality(Gets) = fetch.max_attempts
    /\ \A i \in Gets : IsRetriableFailure(Ev[i])
    /\ fetch.result \in {"status error", "error from last exception"}

\* C10 as stated: in every fetcher, the MET one included, an error status
\* that is not retried is the last thing the fetch does, and no HTML comes back.
FatalStatusFailsAtOnce ==
    Fetching =>
      \A i \in 1..Len(Ev) :
        IsFatalStatus(Ev[i]) =>
          /\ i = Len(Ev)
          /\ fetch.result \notin {"html", "rendered html"}

\* C10: an error status that is not retried is followed by no sleep and no
\* further HTTP attempt.  The MFA, MoMA and Whitney fetchers fail with the
\* status error at once.  The MET fetcher fails with the status error too,
\* unless its rendered-page fallback is enabled: then the fallback runs
\* once, and its HTML is returned when it succeeds.
FatalStatusEndsHttp ==
    Fetching =>
      \A i \in 1..Len(Ev) :
        IsFatalStatus(Ev[i]) =>
          IF fetch.adapter # "met" \/ ~fetch.use_playwright_fallback
          THEN /\ i = Len(Ev)
               /\ fetch.pc \in {"after loop", "done"}
               /\ (fetch.adapter # "met" => fetch.pc = "done")
               /\ (fetch.pc = "done" => fetch.result = "status error")
          ELSE /\ Len(Ev) <= i + 1
               /\ (i = Len(Ev) => fetch.pc = "after loop")
               /\ (i < Len(Ev) =>
                     /\ Ev[i + 1].e = "render"
                     /\ fetch.pc \in {"raise", "done"}
                     /\ (fetch.pc = "done" =>
                           fetch.result = IF Ev[i + 1].ok THEN "rendered html"
                                          ELSE "status error"))

\* the MET fetcher got a 404 and returned the HTML of the rendered page
FatalStatusEndsHttpWitness ==
    /\ Fetching
    /\ fetch.adapter = "met"
    /\ Len(Ev) = 2
    /\ IsFatalStatus(Ev[1])
    /\ Ev[2] = RenderEvent(TRUE)
    /\ fetch.result = "rendered html"

\* the MET fetcher ended with an error after its rendered-page fallback failed
FallbackFailedToo ==
    /\ Fetching
    /\ fetch.adapter = "met"
    /\ fetch.pc = "done"
    /\ Len(Ev) >= 2
    /\ Ev[Len(Ev)] = RenderEvent(FALSE)
    /\ Ev[Len(Ev) - 1].e = "get"

\* C11: when the direct path of the MET fetcher failed and the rendered-page
\* fallback failed too, the error raised is the one that ended the direct
\* path: the status error of the last direct attempt when it got a response,
\* and otherwise an error whose cause is the last transport error; the
\* exception of the fallback never takes its place.
FallbackKeepsDirectError ==
    FallbackFailedToo =>
      LET lastGet == Ev[Len(Ev) - 1]
      IN  IF lastGet.kind = "response"
          THEN /\ fetch.result = "status error"
               /\ fetch.last_response = Some(lastGet.status)
          ELSE /\ fetch.result = "error from last exception"
               /\ fetch.last_exception = "transport"

\* every direct attempt ended in a transport error, the fallback failed, and
\* the cause of the error raised is the exception of the fallback
FallbackErrorIsTheCause ==
    /\ FallbackFailedToo
    /\ \A i \in Gets : Ev[i].kind = "error"
    /\ fetch.result = "error from last exception"
    /\ fetch.last_exception = "playwright"

\* -------------------------------------------------- the extractors: texts

UpperLetters ==
    <<"A", "B", "C", "D", "E", "F", "G", "H", "I", "J", "K", "L", "M",
      "N", "O", "P", "Q", "R", "S", "T", "U", "V", "W", "X", "Y", "Z">>

LowerLetters ==
    <<"a", "b", "c", "d", "e", "f", "g", "h", "i", "j", "k", "l", "m",
      "n", "o", "p", "q", "r", "s", "t", "u", "v", "w", "x", "y", "z">>

LowerChar(c) ==
    IF \E i \in 1..26 : UpperLetters[i] = c
    THEN LowerLetters[CHOOSE i \in 1..26 : UpperLetters[i] = c]
    ELSE c

\* str.lower()
Lower(s) == [i \in 1..Len(s) |-> LowerChar(s[i])]

\* str.startswith(prefix)
StartsWith(s, prefix) == Len(prefix) <= Len(s) /\ SubSeq(s, 1, Len(prefix)) = prefix

\* `word in s` for two texts
Contains(s, word) ==
    \E i \in 1..(Len(s) - Len(word) + 1) : SubSeq(s, i, i + Len(word) - 1) = word

RECURSIVE Flatten(_)
\* "".join(parts)
Flatten(parts) == IF parts = << >> THEN << >> ELSE Head(parts) \o Flatten(Tail(parts))

\* filters.py:1-8
IRRELEVANT_ITEM_KEYWORDS ==
    << <<"t", "i", "c", "k", "e", "t">>, <<"t", "i", "c", "k", "e", "t", "s">>, <<"d", "o", "n", "a", "t", "e">>, <<"m", "e", "m", "b", "e", "r", "s", "h", "i", "p">>, <<"m", "e", "m", "b", "e", "r">>, <<"s", "h", "o", "p">> >>

\* a slip: the keyword may be followed by anything
MatchesKeywordPrefix(normalized, keyword) ==
    normalized = keyword \/ StartsWith(normalized, keyword)

\* filters.py:20  normalized == keyword or normalized.startswith(f"{keyword} ")
MatchesKeyword(normalized, keyword) ==
    normalized = keyword \/ StartsWith(normalized, keyword \o <<" ">>)

\* filters.py:11-23; value is None or Some(text)
IsIrrelevantItemText(value) ==
    IF value = None \/ value[1] = << >>
    THEN TRUE
    ELSE LET normalized == Lower(Strip(value[1]))
         IN  IF normalized = << >>
             THEN TRUE
             ELSE \E k \in 1..Len(IRRELEVANT_ITEM_KEYWORDS) :
                      MatchesKeyword(normalized, IRRELEVANT_ITEM_KEYWORDS[k])

\* ------------------------------------------ the extractors: age ranges

\* U+2013 EN DASH, written as one character of a text
EnDash == "en dash"

\* \w of the regular expressions, on the characters the inputs use
IsWordChar(c) ==
    \/ \E i \in 1..26 : c = UpperLetters[i] \/ c = LowerLetters[i]
    \/ c \in Digits
    \/ c = "_"

\* \b of the regular expressions, between t[i - 1] and t[i]
IsWordBoundary(t, i) ==
    LET before == i > 1 /\ i - 1 <= Len(t) /\ IsWordChar(t[i - 1])
        after  == i >= 1 /\ i <= Len(t) /\ IsWordChar(t[i])
    IN  before # after

RECURSIVE SkipSpaces(_, _)
\* \s*: the index after the whitespace that starts at i
SkipSpaces(t, i) == IF i <= Len(t) /\ IsSpace(t[i]) THEN SkipSpaces(t, i + 1) ELSE i

RECURSIVE DigitRun(_, _)
\* the length of the run of digits that starts at i
DigitRun(t, i) == IF i <= Len(t) /\ t[i] \in Digits THEN 1 + DigitRun(t, i + 1) ELSE 0

\* the index after `ages?` (in any letter case) at i, or 0
AfterAges(t, i) ==
    IF i + 2 <= Len(t) /\ Lower(SubSeq(t, i, i + 2)) = <<"a", "g", "e">>
    THEN IF i + 3 <= Len(t) /\ LowerChar(t[i + 3]) = "s" THEN i + 4 ELSE i + 3
    ELSE 0

\* a slip: "to" is not a separator
AfterRangeSeparatorNoTo(t, i, withTo) ==
    IF i <= Len(t) /\ t[i] \in {"-", EnDash} THEN i + 1 ELSE 0

\* the index after the separator of a range at i, or 0: (?:-|en dash|to)
\* in mfa.py, moma.py and whitney.py, hyphen or en dash in met.py
AfterRangeSeparator(t, i, withTo) ==
    IF i <= Len(t) /\ t[i] \in {"-", EnDash}
    THEN i + 1
    ELSE IF withTo /\ i + 1 <= Len(t) /\ Lower(SubSeq(t, i, i + 1)) = <<"t", "o">>
    THEN i + 2
    ELSE 0

\* mfa.py:27 AGE_RANGE_RE (moma.py:29, whitney.py:25) matched at i when
\* bounded, met.py:30 AGE_RE when not: the two numbers, or None.
\* (\d{1,2}) takes a whole run of digits where a non-digit must follow it,
\* and the first two digits of the run where nothing must follow.
AgeRangeAt(t, i, bounded) ==
    LET a  == AfterAges(t, i)
        n  == SkipSpaces(t, a)
        nl == DigitRun(t, n)
        s  == SkipSpaces(t, n + nl)
        m0 == AfterRangeSeparator(t, s, bounded)
        m  == SkipSpaces(t, m0)
        ml == DigitRun(t, m)
        mt == IF bounded \/ ml <= 2 THEN ml ELSE 2
    IN  IF /\ a # 0
           /\ (bounded => IsWordBoundary(t, i))
           /\ nl \in {1, 2}
           /\ m0 # 0
           /\ mt \in {1, 2}
           /\ (bounded => IsWordBoundary(t, m + mt))
        THEN Some(<<ToNumber(SubSeq(t, n, n + nl - 1)), ToNumber(SubSeq(t, m, m + mt - 1))>>)
        ELSE None

\* mfa.py:28 AGE_PLUS_RE (moma.py:30, whitney.py:26) matched at i: the
\* number, or None
AgePlusAt(t, i) ==
    LET a  == AfterAges(t, i)
        n  == SkipSpaces(t, a)
        nl == DigitRun(t, n)
        p  == n + nl
    IN  IF /\ a # 0
           /\ IsWordBoundary(t, i)
           /\ nl \in {1, 2}
           /\ p <= Len(t) /\ t[p] = "+"
           /\ IsWordBoundary(t, p + 1)
        THEN Some(ToNumber(SubSeq(t, n, n + nl - 1)))
        ELSE None

\* re.search: the match at the first index that has one, or None
SearchAgeRange(t, bounded) ==
    LET hits == {i \in 1..Len(t) : AgeRangeAt(t, i, bounded) # None}
    IN  IF hits = {} THEN None
        ELSE AgeRangeAt(t, CHOOSE i \in hits : \A j \in hits : i <= j, bounded)

SearchAgePlus(t) ==
    LET hits == {i \in 1..Len(t) : AgePlusAt(t, i) # None}
    IN  IF hits = {} THEN None
        ELSE AgePlusAt(t, CHOOSE i \in hits : \A j \in hits : i <= j)

\* f"{title} {description or ''}" (mfa.py:457, whitney.py:450)
BlobWithSpace(title, description) ==
    title \o <<" ">> \o (IF description = None THEN << >> ELSE description[1])

\* title if not description else f"{title} {description}" (moma.py:571, met.py:384)
BlobIfDescription(title, description) ==
    IF description = None \/ description[1] = << >>
    THEN title
    ELSE title \o <<" ">> \o description[1]

\* moma.py:24-26
TEENS_DEFAULT_AGE_MIN == 13
TEENS_DEFAULT_AGE_MAX == 17
KIDS_DEFAULT_AGE_MAX == 12

\* the range and N+ patterns of mfa.py, moma.py and whitney.py, then the
\* default of the source
AgeRangeOr(blob, default) ==
    LET range_match == SearchAgeRange(blob, TRUE)
        plus_match  == SearchAgePlus(blob)
    IN  IF range_match # None
        THEN <<Some(range_match[1][1]), Some(range_match[1][2])>>
        ELSE IF plus_match # None
        THEN <<Some(plus_match[1]), None>>
        ELSE default

\* mfa.py:456-467
MfaParseAgeRange(title, description) ==
    AgeRangeOr(BlobWithSpace(title, description), <<None, None>>)

\* whitney.py:449-461
WhitneyParseAgeRange(title, description) ==
    AgeRangeOr(BlobWithSpace(title, description), <<Some(13), Some(17)>>)

\* moma.py:565-586; audience is a text
MomaParseAgeRange(title, description, audience) ==
    AgeRangeOr(BlobIfDescription(title, description),
               IF Lower(audience) = <<"t", "e", "e", "n", "s">>
               THEN <<Some(TEENS_DEFAULT_AGE_MIN), Some(TEENS_DEFAULT_AGE_MAX)>>
               ELSE IF Lower(audience) = <<"k", "i", "d", "s">>
               THEN <<None, Some(KIDS_DEFAULT_AGE_MAX)>>
               ELSE <<None, None>>)

\* met.py:383-388
MetParseAgeRange(title, description) ==
    LET match == SearchAgeRange(BlobIfDescription(title, description), FALSE)
    IN  IF match = None THEN <<None, None>>
        ELSE <<Some(match[1][1]), Some(match[1][2])>>

\* ------------------------------------------- the extractors: clock times

\* str.replace(".", "")
WithoutDots(s) == SelectSeq(s, LAMBDA c : c # ".")

\* a slip: noon is moved to hour 24
To24hNoonShifted(hour, minute, meridiem) ==
    LET suffix == WithoutDots(Lower(meridiem))
        h1 == IF suffix = <<"p", "m">> THEN hour + 12 ELSE hour
        h2 == IF suffix = <<"a", "m">> /\ h1 = 12 THEN 0 ELSE h1
    IN  <<h2, minute>>

\* mfa.py:434-440
MfaTo24h(hour, minute, meridiem) ==
    LET suffix == WithoutDots(Lower(meridiem))
        h1 == IF suffix = <<"p", "m">> /\ hour # 12 THEN hour + 12 ELSE hour
        h2 == IF suffix = <<"a", "m">> /\ h1 = 12 THEN 0 ELSE h1
    IN  <<h2, minute>>

\* moma.py:509-515
MomaTo24h(hour, minute, meridiem) ==
    LET suffix == WithoutDots(Lower(meridiem))
        h1 == IF suffix = <<"p", "m">> /\ hour # 12 THEN hour + 12 ELSE hour
        h2 == IF suffix = <<"a", "m">> /\ h1 = 12 THEN 0 ELSE h1
    IN  <<h2, minute>>

\* whitney.py:427-433
WhitneyTo24h(hour, minute, meridiem) ==
    LET suffix == WithoutDots(Lower(meridiem))
        h1 == IF suffix = <<"p", "m">> /\ hour # 12 THEN hour + 12 ELSE hour
        h2 == IF suffix = <<"a", "m">> /\ h1 = 12 THEN 0 ELSE h1
    IN  <<h2, minute>>

\* ------------------------------- the extractor functions, one call each

\* the texts made of at most MaxPieces of the given pieces
TextsOf(pieces) == {Flatten(ps) : ps \in SeqsUpTo(pieces, MaxPieces)}

ItemTextPieces ==
    { <<"s", "h", "o", "p">>, <<"S", "h", "o", "p", " ">>, <<"t", "i", "c", "k", "e", "t", "s">>, <<"t", "i", "c", "k", "e", "t", " ">>, <<"m", "e", "m", "b", "e", "r">>, <<"m", "e", "m", "b", "e", "r", "s", "h", "i", "p">>,
      <<"s", "h", "i", "p">>, <<"d", "o", "n", "a", "t", "e">>, <<" ">>, <<"\t">>, <<"\t", "x">>, <<"x">>, <<"s">> }

AgeTextPieces ==
    { <<"A", "g", "e", "s", " ", "8", "-", "1", "2">>, <<" ", "a", "g", "e", "s", " ", "5", " ", "t", "o", " ", "7">>, <<"A", "g", "e", " ", "9", EnDash, "1", "0", " ">>,
      <<"A", "g", "e", "s", " ", "1", "3", "+">>, <<"a", "g", "e", " ", "6", "+", " ">>, <<"p", "a", "g", "e", "s", " ", "3", "-", "4">>, <<"T", "e", "e", "n", " ">>, <<"u", "p">>, <<".">> }

AgeDescriptions == {None, Some(<<"A", "g", "e", "s", " ", "5", "-", "7">>), Some(<<"f", "o", "r", " ", "t", "e", "e", "n", "s">>)}

\* the extractor whose _parse_age_range is called, with the audience of its feed
AgeSources ==
    {[adapter |-> "mfa", audience |-> << >>], [adapter |-> "whitney", audience |-> << >>],
     [adapter |-> "met", audience |-> << >>], [adapter |-> "moma", audience |-> <<"t", "e", "e", "n", "s">>],
     [adapter |-> "moma", audience |-> <<"k", "i", "d", "s">>], [adapter |-> "moma", audience |-> <<"f", "a", "m", "i", "l", "y">>]}

Meridiems == { <<"a", "m">>, <<"A", "M">>, <<"a", ".", "m", ".">>, <<"A", ".", "M">>, <<"p", "m">>, <<"P", "M">>, <<"p", ".", "m", ".">>, <<"P", "m">> }

Called(fn, args) == [pc |-> "called", fn |-> fn, args |-> args, result |-> << >>]

FunctionCalls ==
    {Called("is_irrelevant_item_text", <<v>>) :
        v \in {None} \cup {Some(t) : t \in TextsOf(ItemTextPieces)}}
    \cup {Called("_parse_age_range", <<src, t, d>>) :
        src \in AgeSources, t \in TextsOf(AgeTextPieces), d \in AgeDescriptions}
    \cup {Called("_to_24h", <<a, h, m, mer>>) :
        a \in {"mfa", "moma", "whitney"}, h \in 0..13, m \in {0, 5, 30, 59}, mer \in Meridiems}

FunctionInit ==
    /\ univ = NoUniverse
    /\ store = EmptyDb
    /\ pre = EmptyDb
    /\ last = NoRun
    /\ clock = 0
    /\ same = FALSE
    /\ fetch = FetchIdle
    /\ txns = NoTxns
    /\ parse \in FunctionCalls

Returns(result) ==
    /\ parse' = [parse EXCEPT !.pc = "returned", !.result = result]
    /\ UNCHANGED <<Pipeline, fetch, txns>>

CallIsIrrelevantItemText ==
    /\ parse.pc = "called"
    /\ parse.fn = "is_irrelevant_item_text"
    /\ Returns(IsIrrelevantItemText(parse.args[1]))

CallParseAgeRange ==
    /\ parse.pc = "called"
    /\ parse.fn = "_parse_age_range"
    /\ LET src == parse.args[1]
           title == parse.args[2]
           description == parse.args[3]
       IN  Returns(CASE src.adapter = "mfa" -> MfaParseAgeRange(title, description)
                     [] src.adapter = "whitney" -> WhitneyParseAgeRange(title, description)
                     [] src.adapter = "met" -> MetParseAgeRange(title, description)
                     [] src.adapter = "moma" ->
                            MomaParseAgeRange(title, description, src.audience))

CallTo24h ==
    /\ parse.pc = "called"
    /\ parse.fn = "_to_24h"
    /\ LET hour == parse.args[2]
           minute == parse.args[3]
           meridiem == parse.args[4]
       IN  Returns(CASE parse.args[1] = "mfa" -> MfaTo24h(hour, minute, meridiem)
                     [] parse.args[1] = "moma" -> MomaTo24h(hour, minute, meridiem)
                     [] parse.args[1] = "whitney" -> WhitneyTo24h(hour, minute, meridiem))

FunctionNext == CallIsIrrelevantItemText \/ CallParseAgeRange \/ CallTo24h

\* One call of one extractor function on one input.
FunctionSpec == FunctionInit /\ [][FunctionNext]_vars

\* ------------------------------------ properties of the extractor functions

Returned(fn) == parse.pc = "returned" /\ parse.fn = fn

\* the longest run of whitespace looked for inside an age pattern
MaxGap == 2

Seg(t, from, len) == SubSeq(t, from, from + len - 1)

AllOf(t, from, len, S) == \A k \in from..(from + len - 1) : t[k] \in S

OutsideWord(t, i) == i < 1 \/ i > Len(t) \/ ~IsWordChar(t[i])

AgeWordStarts(t) ==
    {i \in 1..(Len(t) - 2) : Lower(Seg(t, i, 3)) = <<"a", "g", "e">> /\ OutsideWord(t, i - 1)}

\* the indices after the word "age" or "ages" written at i in any letter
\* case as the start of a word
WordEnds(t, i) ==
    {i + w : w \in {w \in {3, 4} : /\ i + w - 1 <= Len(t)
                                   /\ Lower(Seg(t, i, w)) \in { <<"a", "g", "e">>, <<"a", "g", "e", "s">> }
                                   /\ OutsideWord(t, i - 1)}}

\* the indices after at most MaxGap whitespace characters that start in S
AfterGap(t, S) ==
    UNION {{a + g : g \in {g \in 0..MaxGap : a + g - 1 <= Len(t) /\ AllOf(t, a, g, Whitespace)}} :
              a \in S}

\* the numbers of one or two digits that start in S: <<value, index after>>
NumbersFrom(t, S) ==
    UNION {{<<ToNumber(Seg(t, b, l)), b + l>> :
               l \in {l \in {1, 2} : b + l - 1 <= Len(t) /\ AllOf(t, b, l, Digits)}} :
              b \in S}

\* the indices after a hyphen, an en dash or "to" that starts in S
AfterSeparator(t, S) ==
    UNION {{d + l : l \in {l \in {1, 2} : /\ d + l - 1 <= Len(t)
                                          /\ Lower(Seg(t, d, l)) \in {<<"-">>, <<EnDash>>, <<"t", "o">>}}} :
              d \in S}

\* the explicit ranges "age(s) N-M" written at i, as pairs <<N, M>>: the
\* word, N, a separator between optional whitespace, and M ending a word
RangesAt(t, i) ==
    UNION {{<<n[1], m[1]>> :
               m \in {m \in NumbersFrom(t, AfterGap(t, AfterSeparator(t, AfterGap(t, {n[2]})))) :
                         OutsideWord(t, m[2])}} :
              n \in NumbersFrom(t, AfterGap(t, WordEnds(t, i)))}

\* the open ranges "age(s) N+" written at i, as numbers N
PlusesAt(t, i) ==
    {n[1] : n \in {n \in NumbersFrom(t, AfterGap(t, WordEnds(t, i))) :
                      n[2] <= Len(t) /\ t[n[2]] = "+"}}

FirstOf(t, At(_, _)) ==
    LET at == {i \in AgeWordStarts(t) : At(t, i) # {}}
    IN  IF at = {} THEN {} ELSE At(t, CHOOSE i \in at : \A j \in at : i <= j)

\* the text title+description of a call of _parse_age_range
AgeText ==
    parse.args[2] \o <<" ">> \o (IF parse.args[3] = None THEN << >> ELSE parse.args[3][1])

\* the calls of the age-range parsers that know the N+ pattern
AgeParsed == Returned("_parse_age_range") /\ parse.args[1].adapter \in {"mfa", "moma", "whitney"}

\* C14: when title+description contains "Ages N+" and no explicit range,
\* the age-range parser returns (N, None), also when "Ages N+" ends the
\* text or is followed by a space; the default of the source does not
\* take its place.
AgePlusGivesOpenRange ==
    (AgeParsed /\ FirstOf(AgeText, RangesAt) = {} /\ FirstOf(AgeText, PlusesAt) # {}) =>
        \E N \in FirstOf(AgeText, PlusesAt) : parse.result = <<Some(N), None>>

\* "Ages 13+" alone gives the default of the MFA source, (None, None)
AgePlusLost ==
    /\ AgeParsed
    /\ parse.args[1].adapter = "mfa"
    /\ parse.args[2] = <<"A", "g", "e", "s", " ", "1", "3", "+">>
    /\ parse.args[3] = None
    /\ parse.result = <<None, None>>

\* the default ages of a source
SourceDefaultAges(src) ==
    IF src.adapter = "whitney" \/ (src.adapter = "moma" /\ src.audience = <<"t", "e", "e", "n", "s">>)
    THEN <<Some(13), Some(17)>>
    ELSE IF src.adapter = "moma" /\ src.audience = <<"k", "i", "d", "s">>
    THEN <<None, Some(12)>>
    ELSE <<None, None>>

\* C15: the age-range parser returns (N, M) for the first explicit range
\* "age(s) N-M" (hyphen, en dash or "to"; "age(s)" starts a word and M ends
\* one) in title+description, whatever the audience; a text with neither a
\* range nor an "age(s) N+" gets the default of the source: (13,17) for the
\* MoMA teens feed and the Whitney feed, (None,12) for the MoMA kids feed,
\* (None,None) for a source without a declared audience.
AgeRangeElseDefault ==
    AgeParsed =>
      /\ FirstOf(AgeText, RangesAt) # {} =>
           \E r \in FirstOf(AgeText, RangesAt) : parse.result = <<Some(r[1]), Some(r[2])>>
      /\ (FirstOf(AgeText, RangesAt) = {} /\ FirstOf(AgeText, PlusesAt) = {}) =>
           parse.result = SourceDefaultAges(parse.args[1])

\* the kids feed of MoMA read the range of the description, not its default
AgeRangeElseDefaultWitness ==
    /\ AgeParsed
    /\ parse.args[1] = [adapter |-> "moma", audience |-> <<"k", "i", "d", "s">>]
    /\ parse.args[2] = <<"T", "e", "e", "n", " ">>
    /\ parse.args[3] = Some(<<"A", "g", "e", "s", " ", "5", "-", "7">>)
    /\ parse.result = <<Some(5), Some(7)>>

\* the hour a 12-hour clock time stands for
HourOfDay(hour, meridiem) ==
    IF LowerChar(meridiem[1]) = "a"
    THEN (IF hour = 12 THEN 0 ELSE hour)
    ELSE (IF hour = 12 THEN 12 ELSE hour + 12)

\* C16: _to_24h maps a 12-hour clock time (hour 1..12, minute 0..59, am or
\* pm in any letter case, with or without dots) to its hour of the day and
\* leaves the minute as it is, and the three copies give the same answer.
To24hIsHourOfDay ==
    (Returned("_to_24h") /\ parse.args[2] \in 1..12) =>
        /\ parse.result = <<HourOfDay(parse.args[2], parse.args[4]), parse.args[3]>>
        /\ parse.result[1] \in 0..23
        /\ MfaTo24h(parse.args[2], parse.args[3], parse.args[4]) = parse.result
        /\ MomaTo24h(parse.args[2], parse.args[3], parse.args[4]) = parse.result
        /\ WhitneyTo24h(parse.args[2], parse.args[3], parse.args[4]) = parse.result

\* 12:30 p.m. stays hour 12
To24hIsHourOfDayWitness ==
    /\ Returned("_to_24h")
    /\ parse.args = <<"mfa", 12, 30, <<"p", ".", "m", ".">>>>
    /\ parse.result = <<12, 30>>

\* C17: is_irrelevant_item_text(v) is true exactly when v is None, empty or
\* only whitespace, or when v, stripped and in lower case, is one of the
\* keywords ticket, tickets, donate, membership, member, shop or starts
\* with one of them and a space.
IrrelevantExactly ==
    Returned("is_irrelevant_item_text") =>
        LET v == parse.args[1]
            words == { <<"t", "i", "c", "k", "e", "t">>, <<"t", "i", "c", "k", "e", "t", "s">>, <<"d", "o", "n", "a", "t", "e">>, <<"m", "e", "m", "b", "e", "r", "s", "h", "i", "p">>, <<"m", "e", "m", "b", "e", "r">>, <<"s", "h", "o", "p">> }
        IN  parse.result =
              (\/ v = None
               \/ Strip(v[1]) = << >>
               \/ \E k \in words :
                    \/ Lower(Strip(v[1])) = k
                    \/ /\ Len(Strip(v[1])) > Len(k)
                       /\ Lower(Seg(Strip(v[1]), 1, Len(k) + 1)) = k \o <<" ">>)

\* "Shop x" is irrelevant and was told so
IrrelevantExactlyWitness ==
    /\ Returned("is_irrelevant_item_text")
    /\ parse.args[1] = Some(<<"S", "h", "o", "p", " ", "x">>)
    /\ parse.result = TRUE

\* ---------------------------------- the extractors: dates and clock times

\* A date is <<year, month, day>> and a datetime is [date, hour, minute].
\* A month is written with its name as a text; the names strptime knows
\* for %B and %b, in any letter case:
FullMonthNames ==
    << <<"j", "a", "n", "u", "a", "r", "y">>, <<"f", "e", "b", "r", "u", "a", "r", "y">>, <<"m", "a", "r", "c", "h">>, <<"a", "p", "r", "i", "l">>, <<"m", "a", "y">>, <<"j", "u", "n", "e">>, <<"j", "u", "l", "y">>,
       <<"a", "u", "g", "u", "s", "t">>, <<"s", "e", "p", "t", "e", "m", "b", "e", "r">>, <<"o", "c", "t", "o", "b", "e", "r">>, <<"n", "o", "v", "e", "m", "b", "e", "r">>, <<"d", "e", "c", "e", "m", "b", "e", "r">> >>

AbbrMonthNames ==
    << <<"j", "a", "n">>, <<"f", "e", "b">>, <<"m", "a", "r">>, <<"a", "p", "r">>, <<"m", "a", "y">>, <<"j", "u", "n">>, <<"j", "u", "l">>, <<"a", "u", "g">>, <<"s", "e", "p">>,
       <<"o", "c", "t">>, <<"n", "o", "v">>, <<"d", "e", "c">> >>

\* the number of the month a name stands for in the list, or 0
MonthIn(names, name) ==
    IF \E k \in 1..12 : names[k] = Lower(name)
    THEN CHOOSE k \in 1..12 : names[k] = Lower(name)
    ELSE 0

IsLeap(year) == (year % 4 = 0 /\ year % 100 # 0) \/ year % 400 = 0

DaysIn(year, month) ==
    CASE month = 2 -> IF IsLeap(year) THEN 29 ELSE 28
      [] month \in {4, 6, 9, 11} -> 30
      [] OTHER -> 31

\* the dates datetime() accepts
IsDate(date) == date[2] \in 1..12 /\ date[3] \in 1..DaysIn(date[1], date[2])

RECURSIVE DaysBeforeMonth(_, _)
DaysBeforeMonth(year, month) ==
    IF month <= 1 THEN 0 ELSE DaysBeforeMonth(year, month - 1) + DaysIn(year, month - 1)

\* date.toordinal()
Ordinal(date) ==
    LET y == date[1] - 1
    IN  365 * y + (y \div 4) - (y \div 100) + (y \div 400)
          + DaysBeforeMonth(date[1], date[2]) + date[3]

At(date, hour, minute) == [date |-> date, hour |-> hour, minute |-> minute]

\* the outcome of a parser: a value, nothing, or an exception
Value(v) == [raised |-> FALSE, value |-> Some(v)]
Nothing == [raised |-> FALSE, value |-> None]
Raised == [raised |-> TRUE, value |-> None]

\* day.replace(hour=hour, minute=minute), which raises ValueError for an
\* hour above 23 or a minute above 59
ReplaceTime(date, hour, minute) ==
    IF hour \in 0..23 /\ minute \in 0..59 THEN Value(At(date, hour, minute)) ELSE Raised

\* A clock time as it is written in a text: an hour of one or two digits,
\* a minute of two digits or none, whitespace or none before the meridiem,
\* and the meridiem as a text ("PM", "p.m.", ...).
Clock(hour, minute, space, meridiem) ==
    [hour |-> hour, minute |-> minute, space |-> space, meridiem |-> meridiem]

MinuteOf(written) == IF written.minute = None THEN 0 ELSE written.minute[1]

\* a meridiem the time patterns accept: a\.?m\.?|p\.?m\.?|am|pm in any case
IsMeridiem(text) ==
    Lower(text) \in { <<"a", "m">>, <<"p", "m">>, <<"a", ".", "m", ".">>, <<"p", ".", "m", ".">>, <<"a", ".", "m">>, <<"p", ".", "m">>, <<"a", "m", ".">>, <<"p", "m", ".">> }

\* datetime.strptime(text, "%I:%M %p") of hour:minute, whitespace, meridiem:
\* <<hour, minute>> of the day, or None for ValueError
Strptime12(hour, minute, space, meridiem) ==
    IF /\ hour \in 1..12
       /\ minute \in 0..59
       /\ space
       /\ Lower(meridiem) \in { <<"a", "m">>, <<"p", "m">> }
    THEN Some(<<(hour % 12) + (IF Lower(meridiem) = <<"p", "m">> THEN 12 ELSE 0), minute>>)
    ELSE None

\* ------------------------------------------ the extractors: written texts

\* A text a date or a time is looked for in is a sequence of pieces,
\* written one after the other with a space in between:
\*   Words(text)                  plain words, holding no date and no time
\*   WrittenDate(month, day, year)      "March 7, 2026"
\*   WrittenTime(hour, minute, space, meridiem)  "2:30 PM", "3pm"
\*   WrittenHeading(weekday, month, day)   "Saturday, March 7"
\*   WrittenIso(date, hour, minute)        "2026-03-07T14:30"
\* The date and time patterns are modelled on the pieces, the keyword, age
\* and price patterns on the characters the pieces are written with.
Words(text) == [t |-> "words", text |-> text]

WrittenDate(month, day, year) == [t |-> "date", month |-> month, day |-> day, year |-> year]

WrittenTime(hour, minute, space, meridiem) ==
    [t |-> "time", hour |-> hour, minute |-> minute, space |-> space,
     meridiem |-> meridiem]

WrittenHeading(weekday, month, day) ==
    [t |-> "heading", weekday |-> weekday, month |-> month, day |-> day]

WrittenIso(date, hour, minute) ==
    [t |-> "iso", date |-> date, hour |-> hour, minute |-> minute]

DigitChar(n) ==
    CASE n = 0 -> "0" [] n = 1 -> "1" [] n = 2 -> "2" [] n = 3 -> "3" [] n = 4 -> "4"
      [] n = 5 -> "5" [] n = 6 -> "6" [] n = 7 -> "7" [] n = 8 -> "8" [] n = 9 -> "9"

RECURSIVE NumberText(_)
\* str(n)
NumberText(n) ==
    IF n < 10 THEN <<DigitChar(n)>> ELSE NumberText(n \div 10) \o <<DigitChar(n % 10)>>

\* f"{n:02d}"
TwoDigits(n) == IF n < 10 THEN <<"0">> \o NumberText(n) ELSE NumberText(n)

\* the characters of one piece
PieceText(piece) ==
    CASE piece.t = "words" -> piece.text
      [] piece.t = "date" ->
            piece.month \o <<" ">> \o NumberText(piece.day) \o <<",", " ">>
              \o NumberText(piece.year)
      [] piece.t = "time" ->
            NumberText(piece.hour)
              \o (IF piece.minute = None THEN << >>
                  ELSE <<":">> \o TwoDigits(piece.minute[1]))
              \o (IF piece.space THEN <<" ">> ELSE << >>)
              \o piece.meridiem
      [] piece.t = "heading" ->
            piece.weekday \o <<",", " ">> \o piece.month \o <<" ">>
              \o NumberText(piece.day)
      [] piece.t = "iso" ->
            NumberText(piece.date[1]) \o <<"-">> \o TwoDigits(piece.date[2]) \o <<"-">>
              \o TwoDigits(piece.date[3]) \o <<"T">> \o TwoDigits(piece.hour) \o <<":">>
              \o TwoDigits(piece.minute)

RECURSIVE Render(_)
\* the characters of a text: " ".join of its pieces
Render(pieces) ==
    IF pieces = << >> THEN << >>
    ELSE IF Len(pieces) = 1 THEN PieceText(pieces[1])
    ELSE PieceText(pieces[1]) \o <<" ">> \o Render(Tail(pieces))

HasDigit(piece) ==
    piece.t # "words" \/ \E i \in 1..Len(piece.text) : piece.text[i] \in Digits

\* the index of the first piece of the text at or after from that
\* satisfies Test, or 0
FirstPiece(pieces, from, Test(_)) ==
    IF \E k \in from..Len(pieces) : Test(pieces[k])
    THEN CHOOSE k \in from..Len(pieces) :
             Test(pieces[k]) /\ \A h \in from..(k - 1) : ~Test(pieces[h])
    ELSE 0

\* datetime.fromisoformat(text): the text is one ISO piece naming a real
\* date and time
FromIsoFormat(pieces) ==
    IF /\ Len(pieces) = 1
       /\ pieces[1].t = "iso"
       /\ IsDate(pieces[1].date)
       /\ pieces[1].hour \in 0..23
       /\ pieces[1].minute \in 0..59
    THEN Some(At(pieces[1].date, pieces[1].hour, pieces[1].minute))
    ELSE None

\* strptime(date_part, "%B %d, %Y"), then "%b %d, %Y": the date, or None
\* when both raise ValueError
StrptimeDate(piece) ==
    LET full == MonthIn(FullMonthNames, piece.month)
        abbr == MonthIn(AbbrMonthNames, piece.month)
        month == IF full # 0 THEN full ELSE abbr
        date == <<piece.year, month, piece.day>>
    IN  IF month # 0 /\ IsDate(date) THEN Some(date) ELSE None

\* group 2 of DATE_TIME_RE after the date at index k: after characters that
\* are no digits, a clock time (with a minute when withMinute); the index
\* of the piece, or 0
DateTimeGroup2(pieces, k, withMinute) ==
    LET j == FirstPiece(pieces, k + 1, HasDigit)
    IN  IF j # 0 /\ pieces[j].t = "time" /\ (withMinute => pieces[j].minute # None)
        THEN j
        ELSE 0

IsWrittenDate(piece) == piece.t = "date"

IsWrittenTime(piece) == piece.t = "time"

IsWrittenTimeWithMinute(piece) == piece.t = "time" /\ piece.minute # None

\* mfa.py:414-431 _parse_start_time_parts: the first clock time of the text
MfaParseStartTimeParts(pieces) ==
    LET j == FirstPiece(pieces, 1, IsWrittenTime)
    IN  IF j = 0 THEN None
        ELSE Some(MfaTo24h(pieces[j].hour, MinuteOf(pieces[j]), pieces[j].meridiem))

\* whitney.py:407-424
WhitneyParseStartTimeParts(pieces) ==
    LET j == FirstPiece(pieces, 1, IsWrittenTime)
    IN  IF j = 0 THEN None
        ELSE Some(WhitneyTo24h(pieces[j].hour, MinuteOf(pieces[j]), pieces[j].meridiem))

\* moma.py:489-506: the first clock time with a minute
MomaParseStartTimeParts(pieces) ==
    LET j == FirstPiece(pieces, 1, IsWrittenTimeWithMinute)
    IN  IF j = 0 THEN None
        ELSE Some(MomaTo24h(pieces[j].hour, MinuteOf(pieces[j]), pieces[j].meridiem))

\* a slip: a text that holds a time and no date is read as that time on
\* the day strptime gives a bare time, 1900-01-01
MfaParseDatetimeTimeOnly(value) ==
    IF value = None \/ value[1] = << >> THEN Nothing
    ELSE LET pieces == value[1]
             iso == FromIsoFormat(pieces)
             k == FirstPiece(pieces, 1, IsWrittenDate)
             bare == MfaParseStartTimeParts(pieces)
         IN  IF iso # None THEN Value(iso[1])
             ELSE IF k = 0
             THEN (IF bare = None THEN Nothing
                   ELSE ReplaceTime(<<1900, 1, 1>>, bare[1][1], bare[1][2]))
             ELSE LET day == StrptimeDate(pieces[k])
                      g == DateTimeGroup2(pieces, k, FALSE)
                      time == IF g = 0 THEN bare
                              ELSE MfaParseStartTimeParts(<<pieces[g]>>)
                  IN  IF day = None THEN Nothing
                      ELSE IF time = None THEN Value(At(day[1], 0, 0))
                      ELSE ReplaceTime(day[1], time[1][1], time[1][2])

\* mfa.py:352-411 _parse_datetime of a text value (None: no value)
MfaParseDatetime(value) ==
    IF value = None \/ value[1] = << >> THEN Nothing
    ELSE LET pieces == value[1]
             iso == FromIsoFormat(pieces)
             k == FirstPiece(pieces, 1, IsWrittenDate)
         IN  IF iso # None THEN Value(iso[1])
             ELSE IF k = 0 THEN Nothing
             ELSE LET day == StrptimeDate(pieces[k])
                      g == DateTimeGroup2(pieces, k, FALSE)
                      time == IF g = 0 THEN MfaParseStartTimeParts(pieces)
                              ELSE MfaParseStartTimeParts(<<pieces[g]>>)
                  IN  IF day = None THEN Nothing
                      ELSE IF time = None THEN Value(At(day[1], 0, 0))
                      ELSE ReplaceTime(day[1], time[1][1], time[1][2])

\* whitney.py:345-404
WhitneyParseDatetime(value) ==
    IF value = None \/ value[1] = << >> THEN Nothing
    ELSE LET pieces == value[1]
             iso == FromIsoFormat(pieces)
             k == FirstPiece(pieces, 1, IsWrittenDate)
         IN  IF iso # None THEN Value(iso[1])
             ELSE IF k = 0 THEN Nothing
             ELSE LET day == StrptimeDate(pieces[k])
                      g == DateTimeGroup2(pieces, k, FALSE)
                      time == IF g = 0 THEN WhitneyParseStartTimeParts(pieces)
                              ELSE WhitneyParseStartTimeParts(<<pieces[g]>>)
                  IN  IF day = None THEN Nothing
                      ELSE IF time = None THEN Value(At(day[1], 0, 0))
                      ELSE ReplaceTime(day[1], time[1][1], time[1][2])

\* str.upper() of a text of any letters
UpperText(s) ==
    [i \in 1..Len(s) |->
        IF \E k \in 1..26 : LowerLetters[k] = s[i]
        THEN UpperLetters[CHOOSE k \in 1..26 : LowerLetters[k] = s[i]]
        ELSE s[i]]

\* moma.py:525-526 _normalize_meridiem
MomaNormalizeMeridiem(meridiem) ==
    IF meridiem \in { <<"a", ".", "m", ".">>, <<"a", ".", "m">> } THEN <<"A", "M">>
    ELSE IF meridiem \in { <<"p", ".", "m", ".">>, <<"p", ".", "m">> } THEN <<"P", "M">>
    ELSE UpperText(meridiem)

\* moma.py:364-400
MomaParseDatetime(value) ==
    IF value = None \/ value[1] = << >> THEN Nothing
    ELSE LET pieces == value[1]
             iso == FromIsoFormat(pieces)
             k == FirstPiece(pieces, 1, IsWrittenDate)
         IN  IF iso # None THEN Value(iso[1])
             ELSE IF k = 0 THEN Nothing
             ELSE LET day == StrptimeDate(pieces[k])
                      g == DateTimeGroup2(pieces, k, TRUE)
                      time == IF g = 0 THEN None
                              ELSE Strptime12(pieces[g].hour, MinuteOf(pieces[g]),
                                              pieces[g].space,
                                              MomaNormalizeMeridiem(pieces[g].meridiem))
                  IN  IF day = None THEN Nothing
                      ELSE IF time = None THEN Value(At(day[1], 0, 0))
                      ELSE Value(At(day[1], time[1][1], time[1][2]))

\* ------------------------------------------------ the extractors: a page

\* A page holds the event objects of its embedded JSON payloads, in
\* document order, and the elements of its body.  An event object:
\*   json         "ok", or "malformed" for a payload json.loads rejects
\*   title, url, description   None or the value
\*   start        None or the text of startDate, as pieces
\*   paid         MET: isPaid is set or paid is neither empty nor "free"
\*   audiences    MET: the audiences, as texts
\* An element of the body is an anchor, a heading or a paragraph,
\* [tag, href, box, lines]: its text lines in order, each a non-empty
\* sequence of pieces, the href of an anchor as URL tokens, and the number
\* of the nearest article, li, section or div it stands in (0: in none).
EventObject(json, title, url, start, description, paid, audiences) ==
    [json |-> json, title |-> title, url |-> url, start |-> start,
     description |-> description, paid |-> paid, audiences |-> audiences]

Element(tag, href, box, lines) ==
    [tag |-> tag, href |-> href, box |-> box, lines |-> lines]

HtmlPage(events, body) == [events |-> events, body |-> body]

\* ExtractedActivity (pipeline/types.py), the fields the extractors differ in
Row(source_url, title, description, start_at, ages, free_verification_status) ==
    [source_url |-> source_url, title |-> title, description |-> description,
     start_at |-> start_at, age_min |-> ages[1], age_max |-> ages[2],
     free_verification_status |-> free_verification_status]

\* the result of a strategy: the rows it returns, or the exception it lets out
Extracted(rows) == [raised |-> FALSE, rows |-> rows]
Raises == [raised |-> TRUE, rows |-> << >>]

\* the outcome of a page parse: that of the strategy that decided it, with
\* the strategies that were run
Ran(outcome, ran) == [raised |-> outcome.raised, rows |-> outcome.rows, ran |-> ran]

\* the <a href> elements of the body, in document order
Anchors(body) == SelectSeq(body, LAMBDA e : e.tag = "a")

\* element.get_text(" ", strip=True)
ElementText(element) == Render(Flatten(element.lines))

\* soup.get_text("\n").splitlines(), blank lines dropped
RECURSIVE TextLines(_)
TextLines(body) ==
    IF body = << >> THEN << >> ELSE Head(body).lines \o TextLines(Tail(body))

\* " | ".join(parts)
RECURSIVE JoinBar(_)
JoinBar(parts) ==
    IF parts = << >> THEN << >>
    ELSE IF Len(parts) = 1 THEN parts[1]
    ELSE parts[1] \o <<" ", "|", " ">> \o JoinBar(Tail(parts))

\* urljoin(list_url, href) for an absolute href and for a path
UrlJoin(list_url, href) ==
    IF Len(href) >= 2 /\ href[2] = "://" THEN href ELSE SubSeq(list_url, 1, 3) \o href

\* `part in url` for a part that is one token of the URL
HasToken(url, part) == \E k \in 1..Len(url) : url[k] = part

\* a path pattern /part/[^\s?#]+ : the part with something after it
HasPath(url, parts) == \E k \in 1..(Len(url) - 1) : url[k] \in parts

\* (source_url, title, start_at) of a row, the key of the seen sets
SeenKey(row) == <<row.source_url, row.title, row.start_at>>

IsSeen(rows, row) == \E k \in 1..Len(rows) : SeenKey(rows[k]) = SeenKey(row)

\* ------------------------------------------------------ the MET extractor

MET_TEENS_FREE_WORKSHOPS_URL == <<"https", "://", "engage.metmuseum.org", "/events/", "teens">>

EngageHost == "engage.metmuseum.org"

\* met.py:26-29 DATE_HEADING_RE: a full weekday name, capitalised
MetWeekdays ==
    { <<"M", "o", "n", "d", "a", "y">>, <<"T", "u", "e", "s", "d", "a", "y">>, <<"W", "e", "d", "n", "e", "s", "d", "a", "y">>, <<"T", "h", "u", "r", "s", "d", "a", "y">>, <<"F", "r", "i", "d", "a", "y">>, <<"S", "a", "t", "u", "r", "d", "a", "y">>,
      <<"S", "u", "n", "d", "a", "y">> }

MetDateHeadingMatch(line) ==
    Len(line) = 1 /\ line[1].t = "heading" /\ line[1].weekday \in MetWeekdays

\* met.py:30 TIME_LOCATION_RE: hour:minute AM or PM at the start of the line
MetTimeLocationMatch(line) ==
    /\ line[1].t = "time"
    /\ line[1].minute # None
    /\ Lower(line[1].meridiem) \in { <<"a", "m">>, <<"p", "m">> }

\* met.py:348-350
MetLooksLikePrice(text) ==
    LET low == Lower(text)
    IN  \/ Contains(low, <<"f", "r", "e", "e">>)
        \/ Contains(text, <<"$">>)
        \/ Contains(low, <<"m", "e", "m", "b", "e", "r">>)
        \/ Contains(low, <<"t", "i", "c", "k", "e", "t">>)

\* (base - now).days for a midnight base: whole days, rounded down
DaysFromNow(date, now) ==
    Ordinal(date) - Ordinal(now.date) - (IF now.hour > 0 \/ now.minute > 0 THEN 1 ELSE 0)

\* a slip: the heading is read in the year of the run and never rolled
MetParseDateHeadingNeverRolls(heading, now) ==
    LET month == MonthIn(FullMonthNames, heading.month)
        base == <<now.date[1], month, heading.day>>
    IN  IF month = 0 \/ ~IsDate(base) THEN Raised ELSE Value(At(base, 0, 0))

\* met.py:353-359; strptime("%B %d %Y") and replace(year=...) raise ValueError
MetParseDateHeading(heading, now) ==
    LET month == MonthIn(FullMonthNames, heading.month)
        base == <<now.date[1], month, heading.day>>
        next == <<now.date[1] + 1, month, heading.day>>
    IN  IF month = 0 \/ ~IsDate(base) THEN Raised
        ELSE IF DaysFromNow(base, now) < -300
        THEN (IF IsDate(next) THEN Value(At(next, 0, 0)) ELSE Raised)
        ELSE Value(At(base, 0, 0))

\* met.py:362-380; strptime("%I:%M %p") raises ValueError
MetParseStartDatetime(day, time_line, now) ==
    LET date == IF day = None THEN now.date ELSE day[1].date
    IN  IF time_line = None \/ ~MetTimeLocationMatch(time_line[1])
        THEN Value(At(date, 0, 0))
        ELSE LET written == time_line[1][1]
                 time == Strptime12(written.hour, MinuteOf(written), written.space,
                                    written.meridiem)
             IN  IF time = None THEN Raised
                 ELSE Value(At(date, time[1][1], time[1][2]))

\* met.py:263-345
RECURSIVE MetParseEmbeddedEventSources(_, _)
MetParseEmbeddedEventSources(events, rows) ==
    IF events = << >> THEN Extracted(rows)
    ELSE LET source_obj == Head(events)
             start_at == IF source_obj.start = None THEN None
                         ELSE FromIsoFormat(source_obj.start[1])
             row == Row(source_obj.url[1], source_obj.title[1], source_obj.description,
                        start_at[1],
                        MetParseAgeRange(source_obj.title[1], source_obj.description),
                        "confirmed")
             skip ==
                 \/ source_obj.json = "malformed"
                 \/ source_obj.paid
                 \/ ~\E k \in 1..Len(source_obj.audiences) :
                        Contains(Lower(source_obj.audiences[k]), <<"t", "e", "e", "n">>)
                 \/ source_obj.url = None \/ source_obj.url[1] = << >>
                 \/ source_obj.title = None \/ source_obj.title[1] = << >>
                 \/ source_obj.start = None \/ source_obj.start[1] = << >>
                 \/ IsIrrelevantItemText(source_obj.title)
                 \/ start_at = None
                 \/ IsSeen(rows, row)
         IN  MetParseEmbeddedEventSources(Tail(events),
                                          IF skip THEN rows ELSE Append(rows, row))

\* met.py:167-174: the anchors that give title_to_links its keys
MetEventAnchors(body) ==
    SelectSeq(Anchors(body),
              LAMBDA a : ElementText(a) # << >> /\ HasToken(a.href, EngageHost))

\* line in title_to_links
MetKnownTitle(anchors, line) ==
    \E k \in 1..Len(anchors) : ElementText(anchors[k]) = Render(line)

\* title_to_links[title][0]
MetFirstLink(anchors, line) ==
    anchors[CHOOSE k \in 1..Len(anchors) :
                /\ ElementText(anchors[k]) = Render(line)
                /\ \A h \in 1..(k - 1) : ElementText(anchors[h]) # Render(line)].href

\* a slip: a block stops at the next known title only, so the date
\* headings inside it are passed over
MetBlockStopAtTitles(lines, anchors, i) ==
    LET stops == {j \in (i + 1)..Len(lines) : MetKnownTitle(anchors, lines[j])}
    IN  IF stops = {} THEN Len(lines) + 1 ELSE CHOOSE j \in stops : \A h \in stops : j <= h

\* met.py:203-214: where the block that starts at line i stops, the index j
\* of the next date heading or known title, or one past the last line
MetBlockStop(lines, anchors, i) ==
    LET stops == {j \in (i + 1)..Len(lines) :
                     MetDateHeadingMatch(lines[j]) \/ MetKnownTitle(anchors, lines[j])}
    IN  IF stops = {} THEN Len(lines) + 1 ELSE CHOOSE j \in stops : \A h \in stops : j <= h

\* the first line of the block i+1..j-1 that satisfies Test, or None
MetFirstLine(lines, i, j, Test(_)) ==
    LET hits == {k \in (i + 1)..(j - 1) : Test(lines[k])}
    IN  IF hits = {} THEN None ELSE Some(lines[CHOOSE k \in hits : \A h \in hits : k <= h])

MetIsPriceLine(line) == MetLooksLikePrice(Render(line))

MetIsDescriptionLine(line) == ~MetTimeLocationMatch(line) /\ ~MetLooksLikePrice(Render(line))

\* a slip: a priced block is kept whatever its price line says
MetDropsBlockNever(price_line) == FALSE

\* met.py:216-219, the free-only rule
MetDropsBlock(price_line) ==
    price_line # None /\ ~Contains(Lower(Render(price_line[1])), <<"f", "r", "e", "e">>)

RECURSIVE MetWalkLines(_, _, _, _, _, _)
\* met.py:216-260: the block of the title at line i, which stops at line j,
\* with the description, time and price lines found in it
MetWalkBlock(lines, anchors, now, i, cursor_date, rows, j, description, time_line, price_line, start_at) ==
    LET title == Render(lines[i])
        text == IF description = None THEN None ELSE Some(Render(description[1]))
        parts == (IF description = None THEN << >> ELSE <<Render(description[1])>>)
                   \o (IF time_line = None THEN << >> ELSE <<Render(time_line[1])>>)
                   \o (IF price_line = None THEN << >> ELSE <<Render(price_line[1])>>)
        row == Row(MetFirstLink(anchors, lines[i]), title,
                   IF parts = << >> THEN None ELSE Some(JoinBar(parts)),
                   start_at.value[1], MetParseAgeRange(title, text),
                   IF price_line # None THEN "confirmed" ELSE "inferred")
    IN  IF MetDropsBlock(price_line)
        THEN MetWalkLines(lines, anchors, now, j, cursor_date, rows)
        ELSE IF start_at.raised THEN Raises
        ELSE MetWalkLines(lines, anchors, now, j, cursor_date, Append(rows, row))

\* met.py:183-187: the walk goes on under the date of the heading
MetWalkFrom(lines, anchors, now, i, heading, rows) ==
    IF heading.raised THEN Raises
    ELSE MetWalkLines(lines, anchors, now, i, heading.value, rows)

\* a slip: the scan for the description and the price does not stop at
\* the end of the block
MetScanBlockPastStop(lines, anchors, now, i, cursor_date, rows, j, time_line) ==
    MetWalkBlock(lines, anchors, now, i, cursor_date, rows, j,
                 MetFirstLine(lines, i, Len(lines) + 1, MetIsDescriptionLine),
                 time_line,
                 MetFirstLine(lines, i, Len(lines) + 1, MetIsPriceLine),
                 MetParseStartDatetime(cursor_date, time_line, now))

\* met.py:199-214: the scan of the block that stops at line j
MetScanBlock(lines, anchors, now, i, cursor_date, rows, j, time_line) ==
    MetWalkBlock(lines, anchors, now, i, cursor_date, rows, j,
                 MetFirstLine(lines, i, j, MetIsDescriptionLine),
                 time_line,
                 MetFirstLine(lines, i, j, MetIsPriceLine),
                 MetParseStartDatetime(cursor_date, time_line, now))

\* met.py:176-260, the walk over the text lines from line i on
MetWalkLines(lines, anchors, now, i, cursor_date, rows) ==
    IF i > Len(lines) THEN Extracted(rows)
    ELSE IF MetDateHeadingMatch(lines[i])
    THEN MetWalkFrom(lines, anchors, now, i + 1, MetParseDateHeading(lines[i][1], now), rows)
    ELSE IF ~MetKnownTitle(anchors, lines[i])
    THEN MetWalkLines(lines, anchors, now, i + 1, cursor_date, rows)
    ELSE IF IsIrrelevantItemText(Some(Render(lines[i])))
    THEN MetWalkLines(lines, anchors, now, i + 1, cursor_date, rows)
    ELSE MetScanBlock(lines, anchors, now, i, cursor_date, rows,
                      MetBlockStop(lines, anchors, i),
                      MetFirstLine(lines, i, MetBlockStop(lines, anchors, i),
                                   MetTimeLocationMatch))

\* met.py:164-260, the fallback over the body of the page
MetParseFromDom(page, now) ==
    MetWalkLines(TextLines(page.body), MetEventAnchors(page.body), now, 1, None, << >>)

\* a slip: the fallback is run whatever the embedded payload gave
MetParseEventsHtmlFallbackFirst(page, now) ==
    Ran(MetParseFromDom(page, now), <<"json", "dom">>)

\* met.py:160-260: the embedded rows when there are any, else the fallback
MetEmbeddedOrDom(embedded_rows, page, now) ==
    IF embedded_rows.rows # << >>
    THEN Ran(embedded_rows, <<"json">>)
    ELSE Ran(MetParseFromDom(page, now), <<"json", "dom">>)

\* met.py:153-260 parse_met_events_html: [raised, rows, ran], ran naming
\* the strategies that were run
MetParseEventsHtml(page, now) ==
    MetEmbeddedOrDom(MetParseEmbeddedEventSources(page.events, << >>), page, now)

\* ------------------------------------------------------ the MFA extractor

MFA_PROGRAMS_URL == <<"https", "://", "www.mfa.org", "/programs", "?page=0">>

RECURSIVE CollapseSpaces(_)
\* re.sub(r"\s+", " ", text)
CollapseSpaces(t) ==
    IF t = << >> THEN << >>
    ELSE IF IsSpace(Head(t))
    THEN <<" ">> \o CollapseSpaces(SubSeq(t, SkipSpaces(t, 1), Len(t)))
    ELSE <<Head(t)>> \o CollapseSpaces(Tail(t))

\* mfa.py:475-478 _normalize_space: " ".join(text.split())
NormalizeSpace(text) == Strip(CollapseSpaces(text))

\* mfa.py:481-485 _normalize_text of a text or None
NormalizeText(value) ==
    IF value = None \/ NormalizeSpace(value[1]) = << >> THEN None
    ELSE Some(NormalizeSpace(value[1]))

\* the index after the word (in any letter case) at i, or 0
AfterWord(t, i, word) ==
    IF i >= 1 /\ i + Len(word) - 1 <= Len(t) /\ Lower(SubSeq(t, i, i + Len(word) - 1)) = word
    THEN i + Len(word)
    ELSE 0

\* the index after \s+ at i, or 0
AfterSpaces(t, i) == IF i >= 1 /\ SkipSpaces(t, i) > i THEN SkipSpaces(t, i) ELSE 0

\* the index after an optional letter at i
AfterOptional(t, i, letter) ==
    IF i >= 1 /\ i <= Len(t) /\ LowerChar(t[i]) = letter THEN i + 1 ELSE i

\* mfa.py:24 GUIDED_TOUR_RE \bguided\s+tou?rs?\b
GuidedTourAt(t, i) ==
    LET a == AfterSpaces(t, AfterWord(t, i, <<"g", "u", "i", "d", "e", "d">>))
        b == AfterOptional(t, AfterWord(t, a, <<"t", "o">>), "u")
        c == AfterOptional(t, AfterWord(t, b, <<"r">>), "s")
    IN  /\ IsWordBoundary(t, i)
        /\ AfterWord(t, i, <<"g", "u", "i", "d", "e", "d">>) # 0 /\ a # 0
        /\ AfterWord(t, a, <<"t", "o">>) # 0
        /\ AfterWord(t, b, <<"r">>) # 0
        /\ IsWordBoundary(t, c)

\* mfa.py:25 UNAVAILABLE_TICKETS_RE \btickets?\s+no\s+longer\s+available\b
UnavailableTicketsAt(t, i) ==
    LET a == AfterSpaces(t, AfterOptional(t, AfterWord(t, i, <<"t", "i", "c", "k", "e", "t">>), "s"))
        b == AfterSpaces(t, AfterWord(t, a, <<"n", "o">>))
        c == AfterSpaces(t, AfterWord(t, b, <<"l", "o", "n", "g", "e", "r">>))
        d == AfterWord(t, c, <<"a", "v", "a", "i", "l", "a", "b", "l", "e">>)
    IN  /\ IsWordBoundary(t, i)
        /\ AfterWord(t, i, <<"t", "i", "c", "k", "e", "t">>) # 0 /\ a # 0
        /\ AfterWord(t, a, <<"n", "o">>) # 0 /\ b # 0
        /\ AfterWord(t, b, <<"l", "o", "n", "g", "e", "r">>) # 0 /\ c # 0
        /\ d # 0
        /\ IsWordBoundary(t, d)

\* mfa.py:470-472; description and category are texts or None
MfaShouldExcludeEvent(title, description, category) ==
    LET blob == title \o <<" ">> \o (IF description = None THEN << >> ELSE description[1])
                  \o <<" ">> \o (IF category = None THEN << >> ELSE category[1])
    IN  \E i \in 1..Len(blob) : GuidedTourAt(blob, i) \/ UnavailableTicketsAt(blob, i)

\* "confirmed" if "free" in text_blob else "inferred"
FreeStatus(text_blob) ==
    IF Contains(Lower(text_blob), <<"f", "r", "e", "e">>) THEN "confirmed" ELSE "inferred"

NoRow == [raised |-> FALSE, row |-> None]
SomeRow(row) == [raised |-> FALSE, row |-> Some(row)]
RowRaises == [raised |-> TRUE, row |-> None]

\* mfa.py:167-227: a row, no row, or the exception of _parse_datetime
MfaBuildRowFromEventObj(event_obj, list_url) ==
    LET title == IF event_obj.title = None THEN << >> ELSE Strip(event_obj.title[1])
        source_url == UrlJoin(list_url, IF event_obj.url = None \/ event_obj.url[1] = << >>
                                        THEN list_url ELSE event_obj.url[1])
        start_at == MfaParseDatetime(event_obj.start)
        full_description == NormalizeText(event_obj.description)
    IN  IF title = << >> \/ IsIrrelevantItemText(Some(title)) THEN NoRow
        ELSE IF ~HasToken(source_url, "/event/") /\ ~HasToken(source_url, "/programs/")
        THEN NoRow
        ELSE IF start_at.raised THEN RowRaises
        ELSE IF start_at.value = None THEN NoRow
        ELSE IF MfaShouldExcludeEvent(title, full_description, None) THEN NoRow
        ELSE SomeRow(Row(source_url, title, full_description, start_at.value[1],
                         MfaParseAgeRange(title, full_description),
                         FreeStatus(BlobWithSpace(title, full_description))))

\* mfa.py:128-164
RECURSIVE MfaParseFromJsonPayloads(_, _, _)
\* the row built from the first event object is kept unless it is none or
\* was seen before
MfaKeepItem(events, list_url, rows, item) ==
    IF item.raised THEN Raises
    ELSE IF item.row = None \/ IsSeen(rows, item.row[1])
    THEN MfaParseFromJsonPayloads(Tail(events), list_url, rows)
    ELSE MfaParseFromJsonPayloads(Tail(events), list_url,
                                  Append(rows, item.row[1]))

MfaParseFromJsonPayloads(events, list_url, rows) ==
    IF events = << >> THEN Extracted(rows)
    ELSE IF Head(events).json = "malformed"
    THEN MfaParseFromJsonPayloads(Tail(events), list_url, rows)
    ELSE MfaKeepItem(events, list_url, rows, MfaBuildRowFromEventObj(Head(events), list_url))

\* mfa.py:232-240: title_to_links as the (title, link) pairs of the event
\* anchors in document order
MfaTitleToLinks(body, list_url) ==
    LET anchors == SelectSeq(Anchors(body),
                       LAMBDA a : /\ HasPath(a.href, {"/event/", "/programs/"})
                                  /\ NormalizeSpace(ElementText(a)) # << >>)
    IN  [k \in 1..Len(anchors) |->
            [title |-> NormalizeSpace(ElementText(anchors[k])),
             link |-> UrlJoin(list_url, anchors[k].href)]]

\* title in title_to_links
MfaKnownTitle(title_to_links, title) ==
    \E k \in 1..Len(title_to_links) : title_to_links[k].title = title

\* the index of the first link left for the title
MfaFirstLink(title_to_links, title) ==
    CHOOSE k \in 1..Len(title_to_links) :
        /\ title_to_links[k].title = title
        /\ \A h \in 1..(k - 1) : title_to_links[h].title # title

\* title_to_links[title].pop(0), and del when no link is left
MfaPopLink(title_to_links, title) ==
    LET k == MfaFirstLink(title_to_links, title)
    IN  SubSeq(title_to_links, 1, k - 1) \o SubSeq(title_to_links, k + 1, Len(title_to_links))

\* mfa.py:508-517
GenericMarkers ==
    { <<"I", "n", " ", "P", "e", "r", "s", "o", "n">>, <<"T", "i", "c", "k", "e", "t", "s">>, <<"S", "o", "l", "d", " ", "O", "u", "t">>, <<"C", "o", "u", "r", "s", "e">>, <<"F", "i", "l", "m">>, <<"M", "u", "s", "i", "c">>,
      <<"S", "p", "e", "c", "i", "a", "l", " ", "E", "v", "e", "n", "t">>, <<"L", "e", "c", "t", "u", "r", "e">> }

\* lines[k] of the text lines, or the empty line
LineAt(lines, k) == IF k >= 1 /\ k <= Len(lines) THEN lines[k] ELSE << >>

TextOrNone(line) == IF line = << >> THEN None ELSE Some(NormalizeSpace(Render(line)))

\* mfa.py:522-525: the line starts an event when it is a known title
MfaLineIsTitle(title_to_links, title) == MfaKnownTitle(title_to_links, title)

\* mfa.py:498-585, the walk over the text lines from line i on
RECURSIVE MfaParseFromTextLines(_, _, _, _)
\* mfa.py:566-585: the row of the title at line i is appended unless it was
\* seen before, and the link it took is popped
MfaTextRow(lines, title_to_links, i, rows, title, row) ==
    IF IsSeen(rows, row)
    THEN MfaParseFromTextLines(lines, MfaPopLink(title_to_links, title), i + 1, rows)
    ELSE MfaParseFromTextLines(lines, MfaPopLink(title_to_links, title), i + 1,
                               Append(rows, row))

\* mfa.py:544-565: the description is the candidate line when it is plain
\* text that holds no date
MfaTextDescribed(lines, title_to_links, i, rows, title, start_at, category_line, description) ==
    IF MfaShouldExcludeEvent(title, description, category_line)
    THEN MfaParseFromTextLines(lines, title_to_links, i + 1, rows)
    ELSE MfaTextRow(lines, title_to_links, i, rows, title,
             Row(title_to_links[MfaFirstLink(title_to_links, title)].link, title,
                 description, start_at.value[1],
                 MfaParseAgeRange(title, description),
                 FreeStatus((IF category_line = None THEN << >> ELSE category_line[1])
                              \o <<" ">> \o BlobWithSpace(title, description))))

\* mfa.py:522-543: the line at i with the values read from the lines
\* around it
MfaTextLine(lines, title_to_links, i, rows, title, start_at, category_line, candidate_text, candidate_at, plain) ==
    IF ~MfaLineIsTitle(title_to_links, title)
    THEN MfaParseFromTextLines(lines, title_to_links, i + 1, rows)
    ELSE IF start_at.raised THEN Raises
    ELSE IF start_at.value = None
    THEN MfaParseFromTextLines(lines, title_to_links, i + 1, rows)
    ELSE IF plain /\ candidate_at.raised THEN Raises
    ELSE MfaTextDescribed(lines, title_to_links, i, rows, title, start_at, category_line,
             IF plain /\ candidate_at.value = None THEN Some(candidate_text) ELSE None)

\* the candidate description line is plain text: not empty, no generic
\* marker and no title
MfaPlainLine(title_to_links, candidate_desc, candidate_text) ==
    /\ candidate_desc # << >>
    /\ candidate_text \notin GenericMarkers
    /\ ~MfaKnownTitle(title_to_links, candidate_text)

MfaParseFromTextLines(lines, title_to_links, i, rows) ==
    IF i > Len(lines) THEN Extracted(rows)
    ELSE MfaTextLine(lines, title_to_links, i, rows,
             NormalizeSpace(Render(lines[i])),
             MfaParseDatetime(Some(LineAt(lines, i + 1) \o LineAt(lines, i + 2))),
             TextOrNone(LineAt(lines, i - 1)),
             NormalizeSpace(Render(LineAt(lines, i + 3))),
             MfaParseDatetime(Some(LineAt(lines, i + 3))),
             MfaPlainLine(title_to_links, LineAt(lines, i + 3),
                          NormalizeSpace(Render(LineAt(lines, i + 3)))))

\* container.get_text(" ", strip=True) of the nearest article, li, section
\* or div around the anchor body[k], or of the anchor itself: the pieces of
\* the neighbouring elements that stand in the same box, box 0 standing
\* for no such parent
ContainerLines(body, k) ==
    LET SameBox(i, j) == \A h \in i..j : body[h].box = body[k].box
        lo == CHOOSE i \in 1..k : SameBox(i, k) /\ \A h \in 1..(i - 1) : ~SameBox(h, k)
        hi == CHOOSE j \in k..Len(body) :
                  SameBox(k, j) /\ \A h \in (j + 1)..Len(body) : ~SameBox(k, h)
    IN  IF body[k].box = 0 THEN Flatten(body[k].lines)
        ELSE Flatten(TextLines(SubSeq(body, lo, hi)))

\* mfa.py:247-302, the loop over the anchors
RECURSIVE MfaParseFromAnchors(_, _, _, _)
\* mfa.py:285-300: the row of the anchor is appended unless it was seen
MfaAnchorRow(body, k, list_url, rows, row) ==
    IF IsSeen(rows, row) THEN MfaParseFromAnchors(body, k + 1, list_url, rows)
    ELSE MfaParseFromAnchors(body, k + 1, list_url, Append(rows, row))

\* mfa.py:250-284: the anchor body[k] with its title, the text of its
\* container and the date read from it
MfaAnchor(body, k, list_url, rows, title, blob, start_at) ==
    IF body[k].tag # "a" \/ ~HasPath(body[k].href, {"/event/", "/programs/"})
    THEN MfaParseFromAnchors(body, k + 1, list_url, rows)
    ELSE IF title = << >> \/ IsIrrelevantItemText(Some(title))
    THEN MfaParseFromAnchors(body, k + 1, list_url, rows)
    ELSE IF blob = << >> THEN MfaParseFromAnchors(body, k + 1, list_url, rows)
    ELSE IF MfaShouldExcludeEvent(title, Some(blob), None)
    THEN MfaParseFromAnchors(body, k + 1, list_url, rows)
    ELSE IF start_at.raised THEN Raises
    ELSE IF start_at.value = None THEN MfaParseFromAnchors(body, k + 1, list_url, rows)
    ELSE MfaAnchorRow(body, k, list_url, rows,
             Row(UrlJoin(list_url, body[k].href), title,
                 IF blob # title THEN Some(blob) ELSE None, start_at.value[1],
                 MfaParseAgeRange(title, Some(blob)),
                 FreeStatus(BlobWithSpace(title, Some(blob)))))

MfaParseFromAnchors(body, k, list_url, rows) ==
    IF k > Len(body) THEN Extracted(rows)
    ELSE MfaAnchor(body, k, list_url, rows,
                   NormalizeSpace(ElementText(body[k])),
                   NormalizeSpace(Render(ContainerLines(body, k))),
                   MfaParseDatetime(Some(ContainerLines(body, k))))

\* mfa.py:242-302: the rows of the line walk when there are any, else the
\* loop over the anchors
MfaLineRowsOrAnchors(page, list_url, walked, line_rows) ==
    IF line_rows.raised \/ line_rows.rows # << >>
    THEN Ran(line_rows, <<"lines">>)
    ELSE Ran(MfaParseFromAnchors(page.body, 1, list_url, << >>), walked \o <<"anchors">>)

\* mfa.py:242-245: the line walk is made when the page has event links
MfaLinesOrAnchors(page, list_url, title_to_links) ==
    MfaLineRowsOrAnchors(page, list_url,
        IF title_to_links = << >> THEN << >> ELSE <<"lines">>,
        IF title_to_links = << >> THEN Extracted(<< >>)
        ELSE MfaParseFromTextLines(TextLines(page.body), title_to_links, 1, << >>))

\* mfa.py:230-302
MfaParseFromDomFallback(page, list_url) ==
    MfaLinesOrAnchors(page, list_url, MfaTitleToLinks(page.body, list_url))

\* the fallback's outcome as that of the page
MfaAfterJson(dom) == Ran(dom, <<"json">> \o dom.ran)

\* mfa.py:122-125: the rows of the JSON payloads when there are any, else
\* the DOM fallback
MfaJsonOrDom(rows, page, list_url) ==
    IF rows.raised THEN Ran(Raises, <<"json">>)
    ELSE IF rows.rows # << >> THEN Ran(rows, <<"json">>)
    ELSE MfaAfterJson(MfaParseFromDomFallback(page, list_url))

\* mfa.py:117-125 parse_mfa_events_html
MfaParseEventsHtml(page, list_url) ==
    MfaJsonOrDom(MfaParseFromJsonPayloads(page.events, list_url, << >>), page, list_url)

\* -------------------------------------------------- the Whitney extractor

WHITNEY_TEEN_WORKSHOPS_URL == <<"https", "://", "whitney.org", "/events", "?tags">>

\* whitney.py:160-233
WhitneyBuildRowFromEventObj(event_obj, list_url) ==
    LET title == IF event_obj.title = None THEN << >> ELSE Strip(event_obj.title[1])
        source_url == UrlJoin(list_url, IF event_obj.url = None \/ event_obj.url[1] = << >>
                                        THEN list_url ELSE event_obj.url[1])
        start_at == WhitneyParseDatetime(event_obj.start)
        full_description == NormalizeText(event_obj.description)
    IN  IF title = << >> \/ IsIrrelevantItemText(Some(title)) THEN NoRow
        ELSE IF ~HasToken(source_url, "/events/") THEN NoRow
        ELSE IF start_at.raised THEN RowRaises
        ELSE IF start_at.value = None THEN NoRow
        ELSE SomeRow(Row(source_url, title, full_description, start_at.value[1],
                         WhitneyParseAgeRange(title, full_description),
                         FreeStatus(BlobWithSpace(title, full_description))))

\* whitney.py:121-157
RECURSIVE WhitneyParseFromJsonPayloads(_, _, _)
\* the row built from the first event object is kept unless it is none or
\* was seen before
WhitneyKeepItem(events, list_url, rows, item) ==
    IF item.raised THEN Raises
    ELSE IF item.row = None \/ IsSeen(rows, item.row[1])
    THEN WhitneyParseFromJsonPayloads(Tail(events), list_url, rows)
    ELSE WhitneyParseFromJsonPayloads(Tail(events), list_url,
                                      Append(rows, item.row[1]))

WhitneyParseFromJsonPayloads(events, list_url, rows) ==
    IF events = << >> THEN Extracted(rows)
    ELSE IF Head(events).json = "malformed"
    THEN WhitneyParseFromJsonPayloads(Tail(events), list_url, rows)
    ELSE WhitneyKeepItem(events, list_url, rows, WhitneyBuildRowFromEventObj(Head(events), list_url))

\* whitney.py:236-296, the loop over the anchors
RECURSIVE WhitneyParseFromAnchors(_, _, _, _)
WhitneyParseFromAnchors(body, k, list_url, rows) ==
    IF k > Len(body) THEN Extracted(rows)
    ELSE LET anchor == body[k]
             title == NormalizeSpace(ElementText(anchor))
             pieces == ContainerLines(body, k)
             blob == NormalizeSpace(Render(pieces))
             start_at == WhitneyParseDatetime(Some(pieces))
             row == Row(UrlJoin(list_url, anchor.href), title,
                        IF blob # title THEN Some(blob) ELSE None, start_at.value[1],
                        WhitneyParseAgeRange(title, Some(blob)),
                        FreeStatus(BlobWithSpace(title, Some(blob))))
             skip == WhitneyParseFromAnchors(body, k + 1, list_url, rows)
         IN  IF anchor.tag # "a" \/ ~HasPath(anchor.href, {"/events/"}) THEN skip
             ELSE IF title = << >> \/ IsIrrelevantItemText(Some(title)) THEN skip
             ELSE IF blob = << >> THEN skip
             ELSE IF start_at.raised THEN Raises
             ELSE IF start_at.value = None \/ IsSeen(rows, row) THEN skip
             ELSE WhitneyParseFromAnchors(body, k + 1, list_url, Append(rows, row))

\* whitney.py:236-296
WhitneyParseFromDomFallback(page, list_url) ==
    WhitneyParseFromAnchors(page.body, 1, list_url, << >>)

\* whitney.py:115-118: the rows of the JSON payloads when there are any,
\* else the DOM fallback
WhitneyJsonOrDom(rows, page, list_url) ==
    IF rows.raised THEN Ran(Raises, <<"json">>)
    ELSE IF rows.rows # << >> THEN Ran(rows, <<"json">>)
    ELSE Ran(WhitneyParseFromDomFallback(page, list_url), <<"json", "anchors">>)

\* whitney.py:110-118 parse_whitney_events_html
WhitneyParseEventsHtml(page, list_url) ==
    WhitneyJsonOrDom(WhitneyParseFromJsonPayloads(page.events, list_url, << >>),
                     page, list_url)

\* ----------------------------------------------------- the MoMA extractor

MOMA_TEENS_CALENDAR_URL == <<"https", "://", "www.moma.org", "/calendar/", "?happening_filter=For+teens">>

\* moma.py:184-245; _parse_datetime of moma.py raises nothing
MomaBuildRowFromEventObj(event_obj, audience, list_url) ==
    LET title == IF event_obj.title = None THEN << >> ELSE Strip(event_obj.title[1])
        source_url == UrlJoin(list_url, IF event_obj.url = None \/ event_obj.url[1] = << >>
                                        THEN list_url ELSE event_obj.url[1])
        start_at == MomaParseDatetime(event_obj.start)
        full_description == NormalizeText(event_obj.description)
    IN  IF title = << >> \/ IsIrrelevantItemText(Some(title)) THEN NoRow
        ELSE IF start_at.value = None THEN NoRow
        ELSE SomeRow(Row(source_url, title, full_description, start_at.value[1],
                         MomaParseAgeRange(title, full_description, audience),
                         "inferred"))

\* moma.py:145-181
RECURSIVE MomaParseFromJsonPayloads(_, _, _, _)
\* the row built from the first event object is kept unless it is none or
\* was seen before
MomaKeepItem(events, audience, list_url, rows, item) ==
    IF item.row = None \/ IsSeen(rows, item.row[1])
    THEN MomaParseFromJsonPayloads(Tail(events), audience, list_url, rows)
    ELSE MomaParseFromJsonPayloads(Tail(events), audience, list_url,
                                   Append(rows, item.row[1]))

MomaParseFromJsonPayloads(events, audience, list_url, rows) ==
    IF events = << >> THEN Extracted(rows)
    ELSE IF Head(events).json = "malformed"
    THEN MomaParseFromJsonPayloads(Tail(events), audience, list_url, rows)
    ELSE MomaKeepItem(events, audience, list_url, rows, MomaBuildRowFromEventObj(Head(events), audience, list_url))

\* moma.py:407-417 _extract_base_day_from_url: the date parameter of the
\* list URL when it names a date, else today
MomaExtractBaseDay(url_date, now) ==
    IF url_date # None /\ IsDate(url_date[1]) THEN url_date[1] ELSE now.date

\* moma.py:36-39 DATE_HEADING_RE: a weekday name or its first three letters
MomaWeekdays ==
    { <<"m", "o", "n", "d", "a", "y">>, <<"t", "u", "e", "s", "d", "a", "y">>, <<"w", "e", "d", "n", "e", "s", "d", "a", "y">>, <<"t", "h", "u", "r", "s", "d", "a", "y">>, <<"f", "r", "i", "d", "a", "y">>, <<"s", "a", "t", "u", "r", "d", "a", "y">>,
      <<"s", "u", "n", "d", "a", "y">>, <<"m", "o", "n">>, <<"t", "u", "e">>, <<"w", "e", "d">>, <<"t", "h", "u">>, <<"f", "r", "i">>, <<"s", "a", "t">>, <<"s", "u", "n">> }

\* moma.py:420-446 _parse_heading_day of the text of an h2; replace(year=...)
\* raises ValueError
MomaParseHeadingDay(pieces, base_day) ==
    IF ~(/\ Len(pieces) = 1
         /\ pieces[1].t = "heading"
         /\ Lower(pieces[1].weekday) \in MomaWeekdays
         /\ Len(pieces[1].month) \in 3..9)
    THEN Nothing
    ELSE LET abbr == MonthIn(AbbrMonthNames, pieces[1].month)
             full == MonthIn(FullMonthNames, pieces[1].month)
             month == IF abbr # 0 THEN abbr ELSE full
             parsed == <<base_day[1], month, pieces[1].day>>
             days == Ordinal(parsed) - Ordinal(base_day)
             moved == IF days < -180 THEN <<base_day[1] + 1, month, pieces[1].day>>
                      ELSE IF days > 180 THEN <<base_day[1] - 1, month, pieces[1].day>>
                      ELSE parsed
         IN  IF month = 0 \/ ~IsDate(parsed) THEN Nothing
             ELSE IF ~IsDate(moved) THEN Raised
             ELSE Value(moved)

\* moma.py:473-486 _parse_start_datetime_for_day: the first of the title and
\* the detail lines that holds a clock time gives the time
MomaParseStartDatetimeForDay(day, lines) ==
    LET hits == {k \in 1..Len(lines) : MomaParseStartTimeParts(lines[k]) # None}
    IN  IF hits = {} THEN Nothing
        ELSE LET time == MomaParseStartTimeParts(
                             lines[CHOOSE k \in hits : \A h \in hits : k <= h])
             IN  ReplaceTime(day, time[1][1], time[1][2])

\* moma.py:449-470 _extract_anchor_text_parts: the detail lines, the lines
\* after the first that differ from it
MomaDetailLines(lines) ==
    SelectSeq(Tail(lines), LAMBDA line : NormalizeSpace(Render(line)) # NormalizeSpace(Render(lines[1])))

\* moma.py:248-312, the walk over the h2 and a elements
RECURSIVE MomaWalk(_, _, _, _, _, _)
MomaWalk(nodes, audience, list_url, default_day, current_day, rows) ==
    IF nodes = << >> THEN Extracted(rows)
    ELSE LET node == Head(nodes)
             rest == Tail(nodes)
             heading_day == MomaParseHeadingDay(Flatten(node.lines), default_day)
             title == IF node.lines = << >> THEN << >>
                      ELSE NormalizeSpace(Render(node.lines[1]))
             detail_lines == MomaDetailLines(node.lines)
             description ==
                 IF detail_lines = << >> THEN None
                 ELSE Some(JoinBar([k \in 1..Len(detail_lines) |->
                                       NormalizeSpace(Render(detail_lines[k]))]))
             timed == MomaParseStartDatetimeForDay(current_day,
                                                   <<node.lines[1]>> \o detail_lines)
             start_at == IF timed.value = None THEN At(current_day, 0, 0)
                         ELSE timed.value[1]
             row == Row(UrlJoin(list_url, node.href), title, description, start_at,
                        MomaParseAgeRange(title, description, audience), "inferred")
             skip == MomaWalk(rest, audience, list_url, default_day, current_day, rows)
         IN  IF node.tag = "h2"
             THEN IF heading_day.raised THEN Raises
                  ELSE IF heading_day.value = None THEN skip
                  ELSE MomaWalk(rest, audience, list_url, default_day,
                                heading_day.value[1], rows)
             ELSE IF node.tag # "a" \/ ~HasPath(node.href, {"/calendar/events/"}) THEN skip
             ELSE IF title = << >> \/ IsIrrelevantItemText(Some(title)) THEN skip
             ELSE IF timed.raised THEN Raises
             ELSE IF IsSeen(rows, row) THEN skip
             ELSE MomaWalk(rest, audience, list_url, default_day, current_day,
                           Append(rows, row))

\* moma.py:248-312
MomaParseFromDomFallback(page, audience, list_url, url_date, now) ==
    MomaWalk(page.body, audience, list_url, MomaExtractBaseDay(url_date, now),
             MomaExtractBaseDay(url_date, now), << >>)

\* moma.py:139-142: the rows of the JSON payloads when there are any, else
\* the DOM fallback
MomaJsonOrDom(rows, page, audience, list_url, url_date, now) ==
    IF rows.rows # << >> THEN Ran(rows, <<"json">>)
    ELSE Ran(MomaParseFromDomFallback(page, audience, list_url, url_date, now),
             <<"json", "walk">>)

\* moma.py:132-142 parse_moma_events_html
MomaParseEventsHtml(page, audience, list_url, url_date, now) ==
    MomaJsonOrDom(MomaParseFromJsonPayloads(page.events, audience, list_url, << >>),
                  page, audience, list_url, url_date, now)

\* ------------------------------------------- the extractors as a machine

\* The pages the extractors are run on.  The body of a page is any sequence
\* of at most MaxElements elements of one of the sets below; its event
\* objects are one of the listed sequences.
MaxElements == 3

Today == At(<<2026, 3, 1>>, 9, 0)

March7 == WrittenDate(<<"M", "a", "r", "c", "h">>, 7, 2026)

February30 == WrittenDate(<<"F", "e", "b", "r", "u", "a", "r", "y">>, 30, 2026)

IsoMarch7 == WrittenIso(<<2026, 3, 7>>, 14, 30)

IsoMonth13 == WrittenIso(<<2026, 13, 7>>, 14, 30)

HalfPastTwo == WrittenTime(2, Some(30), TRUE, <<"P", "M">>)

HalfPastTwoTight == WrittenTime(2, Some(30), FALSE, <<"P", "M">>)

ThreeOClock == WrittenTime(3, None, TRUE, <<"p", ".", "m", ".">>)

ThirteenPm == WrittenTime(13, Some(0), TRUE, <<"P", "M">>)

SaturdayMarch7 == WrittenHeading(<<"S", "a", "t", "u", "r", "d", "a", "y">>, <<"M", "a", "r", "c", "h">>, 7)

SaturdayFebruary30 == WrittenHeading(<<"S", "a", "t", "u", "r", "d", "a", "y">>, <<"F", "e", "b", "r", "u", "a", "r", "y">>, 30)

SatMarch8 == WrittenHeading(<<"S", "a", "t">>, <<"M", "a", "r">>, 8)

SundayMarch8 == WrittenHeading(<<"S", "u", "n", "d", "a", "y">>, <<"M", "a", "r", "c", "h">>, 8)

\* a paragraph that holds one line
Paragraph(box, line) == Element("p", << >>, box, <<line>>)

\* an <a href> that holds its title only
Link(href, box, title) == Element("a", href, box, <<<<Words(title)>>>>)

MetHref1 == <<"https", "://", "engage.metmuseum.org", "/events/", "1">>

MetHref2 == <<"https", "://", "engage.metmuseum.org", "/events/", "2">>

MetElementSets ==
    { \* blocks with and without price lines
      { Link(MetHref1, 0, <<"A", "r", "t">>), Link(MetHref2, 0, <<"Z", "i", "n", "e">>),
        Paragraph(0, <<Words(<<"$", "1", "2">>)>>), Paragraph(0, <<Words(<<"F", "R", "E", "E">>)>>),
        Paragraph(0, <<Words(<<"a", "g", "e", "s", " ", "8", "-", "1", "2">>)>>), Paragraph(0, <<HalfPastTwo, Words(<<"H", "a", "l", "l">>)>>) },
      \* headings and times, well and badly written
      { Link(MetHref1, 0, <<"A", "r", "t">>), Link(MetHref2, 0, <<"S", "h", "o", "p">>),
        Paragraph(0, <<SaturdayMarch7>>), Paragraph(0, <<SaturdayFebruary30>>),
        Paragraph(0, <<HalfPastTwoTight>>), Paragraph(0, <<ThreeOClock>>) },
      \* two date headings, and a line that only starts like one
      { Link(MetHref1, 0, <<"A", "r", "t">>), Paragraph(0, <<SaturdayMarch7>>),
        Paragraph(0, <<SundayMarch8>>),
        Paragraph(0, <<SundayMarch8, Words(<<"o", "n", "l", "y">>)>>) } }

Teens == <<<<"T", "e", "e", "n", "s">>>>

MetEvents ==
    { << >>,
      <<EventObject("ok", Some(<<"A", "r", "t">>), Some(MetHref1), Some(<<IsoMarch7>>), None, FALSE, Teens)>>,
      <<EventObject("ok", Some(<<"A", "r", "t">>), Some(MetHref1), Some(<<IsoMarch7>>), None, TRUE, Teens)>>,
      <<EventObject("malformed", None, None, None, None, FALSE, << >>),
        EventObject("ok", Some(<<"S", "h", "o", "p">>), Some(MetHref1), Some(<<IsoMarch7>>), None, FALSE, Teens),
        EventObject("ok", Some(<<"A", "r", "t">>), Some(MetHref1), Some(<<IsoMonth13>>), None, FALSE, Teens),
        EventObject("ok", Some(<<"Z", "i", "n", "e">>), Some(MetHref2), Some(<<IsoMarch7>>), Some(<<"A", "g", "e", "s", " ", "8", "-", "1", "2">>), FALSE, Teens)>> }

MfaHref1 == <<"/event/", "art">>

MfaHref2 == <<"/programs/", "shop">>

MfaElementSets ==
    { \* titles followed by date and time lines
      { Link(MfaHref1, 0, <<"A", "r", "t">>), Link(MfaHref2, 0, <<"M", "e", "m", "b", "e", "r", "s", "h", "i", "p">>),
        Paragraph(0, <<March7>>), Paragraph(0, <<HalfPastTwo>>),
        Paragraph(0, <<ThirteenPm>>), Paragraph(0, <<Words(<<"L", "e", "c", "t", "u", "r", "e">>)>>) },
      \* containers that hold the date before the title
      { Link(MfaHref1, 1, <<"A", "r", "t">>), Link(MfaHref2, 2, <<"S", "h", "o", "p">>),
        Paragraph(1, <<March7, Words(<<"a", "t">>), ThreeOClock>>),
        Paragraph(2, <<March7, ThirteenPm>>), Paragraph(1, <<February30>>),
        Paragraph(2, <<Words(<<"g", "u", "i", "d", "e", "d", " ", "t", "o", "u", "r", "s">>)>>) } }

\* the event objects of an MFA, MoMA or Whitney page with event links href1
\* and href2
JsonEvents(href1, href2) ==
    { << >>,
      <<EventObject("ok", Some(<<"A", "r", "t">>), Some(href1), Some(<<IsoMarch7>>), None, FALSE, << >>)>>,
      <<EventObject("ok", Some(<<"A", "r", "t">>), Some(href1), Some(<<March7, ThirteenPm>>), None, FALSE, << >>),
        EventObject("ok", Some(<<"Z", "i", "n", "e">>), Some(href2), Some(<<March7, HalfPastTwo>>), None, FALSE, << >>)>>,
      <<EventObject("malformed", None, None, None, None, FALSE, << >>),
        EventObject("ok", Some(<<"S", "h", "o", "p">>), Some(href1), Some(<<IsoMarch7>>), None, FALSE, << >>),
        EventObject("ok", None, Some(href1), Some(<<IsoMarch7>>), None, FALSE, << >>),
        EventObject("ok", Some(<<"A", "r", "t">>), None, Some(<<March7>>), None, FALSE, << >>),
        EventObject("ok", Some(<<"A", "r", "t">>), Some(href1), None, None, FALSE, << >>),
        EventObject("ok", Some(<<"A", "r", "t">>), Some(href1), Some(<<February30>>), None, FALSE, << >>),
        EventObject("ok", Some(<<"A", "r", "t">>), Some(href2), Some(<<HalfPastTwo>>), None, FALSE, << >>),
        EventObject("ok", Some(<<"Z", "i", "n", "e">>), Some(href2), Some(<<March7, ThreeOClock>>),
                    Some(<<"A", "g", "e", "s", " ", "1", "3", "+">>), FALSE, << >>)>> }

WhitneyHref1 == <<"/events/", "art">>

WhitneyHref2 == <<"/events/", "shop">>

WhitneyElementSets ==
    { { Link(WhitneyHref1, 1, <<"A", "r", "t">>), Link(WhitneyHref2, 2, <<"S", "h", "o", "p">>),
        Link(WhitneyHref2, 0, <<"Z", "i", "n", "e">>),
        Paragraph(1, <<March7, Words(<<"a", "t">>), ThreeOClock>>),
        Paragraph(2, <<March7, ThirteenPm>>), Paragraph(1, <<February30>>) },
      \* a container that holds a time and no date
      { Link(WhitneyHref1, 1, <<"A", "r", "t">>), Paragraph(1, <<HalfPastTwo>>),
        Paragraph(2, <<March7>>) } }

MomaHref1 == <<"/calendar/events/", "1">>

MomaHref2 == <<"/calendar/events/", "2">>

MomaElementSets ==
    { { Element("a", MomaHref1, 0, <<<<Words(<<"A", "r", "t">>)>>, <<HalfPastTwo>>>>),
        Element("a", MomaHref2, 0, <<<<Words(<<"S", "h", "o", "p">>)>>, <<HalfPastTwo>>>>),
        Element("a", MomaHref2, 0, <<<<Words(<<"Z", "i", "n", "e">>)>>, <<ThirteenPm>>>>),
        Element("a", MomaHref1, 0, <<<<Words(<<"A", "r", "t">>)>>, <<ThreeOClock>>>>),
        Element("h2", << >>, 0, <<<<SaturdayMarch7>>>>),
        Element("h2", << >>, 0, <<<<SatMarch8>>>>) },
      \* two date headings, and a heading that names no date
      { Element("a", MomaHref1, 0, <<<<Words(<<"A", "r", "t">>)>>, <<HalfPastTwo>>>>),
        Element("h2", << >>, 0, <<<<SaturdayMarch7>>>>),
        Element("h2", << >>, 0, <<<<SatMarch8>>>>),
        Element("h2", << >>, 0, <<<<Words(<<"T", "e", "e", "n", "s">>)>>>>) } }

\* the bodies of at most MaxElements elements of one of the sets
Bodies(sets) ==
    UNION {UNION {[1..n -> elements] : n \in 0..MaxElements} : elements \in sets}

Pages(events, sets) == {HtmlPage(e, b) : e \in events, b \in Bodies(sets)}

ParseCalls ==
    {Called("parse_met_events_html", <<p, Today>>) : p \in Pages(MetEvents, MetElementSets)}
    \cup {Called("parse_mfa_events_html", <<p, MFA_PROGRAMS_URL>>) :
            p \in Pages(JsonEvents(MfaHref1, MfaHref2), MfaElementSets)}
    \cup {Called("parse_whitney_events_html", <<p, WHITNEY_TEEN_WORKSHOPS_URL>>) :
            p \in Pages(JsonEvents(WhitneyHref1, WhitneyHref2), WhitneyElementSets)}
    \cup {Called("parse_moma_events_html",
                 <<p, <<"t", "e", "e", "n", "s">>, MOMA_TEENS_CALENDAR_URL, None, Today>>) :
            p \in Pages(JsonEvents(MomaHref1, MomaHref2), MomaElementSets)}

ParseInit ==
    /\ univ = NoUniverse
    /\ store = EmptyDb
    /\ pre = EmptyDb
    /\ last = NoRun
    /\ clock = 0
    /\ same = FALSE
    /\ fetch = FetchIdle
    /\ parse \in ParseCalls
    /\ txns = NoTxns

ParseMet ==
    /\ parse.pc = "called"
    /\ parse.fn = "parse_met_events_html"
    /\ Returns(MetParseEventsHtml(parse.args[1], parse.args[2]))

ParseMfa ==
    /\ parse.pc = "called"
    /\ parse.fn = "parse_mfa_events_html"
    /\ Returns(MfaParseEventsHtml(parse.args[1], parse.args[2]))

ParseWhitney ==
    /\ parse.pc = "called"
    /\ parse.fn = "parse_whitney_events_html"
    /\ Returns(WhitneyParseEventsHtml(parse.args[1], parse.args[2]))

ParseMoma ==
    /\ parse.pc = "called"
    /\ parse.fn = "parse_moma_events_html"
    /\ Returns(MomaParseEventsHtml(parse.args[1], parse.args[2], parse.args[3],
                                   parse.args[4], parse.args[5]))

ParseNext == ParseMet \/ ParseMfa \/ ParseWhitney \/ ParseMoma

ParseSpec == ParseInit /\ [][ParseNext]_vars

\* --------------------------------------------- properties of the extractors

PageParsed ==
    /\ parse.pc = "returned"
    /\ parse.fn \in {"parse_met_events_html", "parse_mfa_events_html",
                     "parse_whitney_events_html", "parse_moma_events_html"}

\* what the structured-payload strategy gives for the page of the call
PayloadRows ==
    CASE parse.fn = "parse_met_events_html" ->
            MetParseEmbeddedEventSources(parse.args[1].events, << >>)
      [] parse.fn = "parse_mfa_events_html" ->
            MfaParseFromJsonPayloads(parse.args[1].events, parse.args[2], << >>)
      [] parse.fn = "parse_whitney_events_html" ->
            WhitneyParseFromJsonPayloads(parse.args[1].events, parse.args[2], << >>)
      [] parse.fn = "parse_moma_events_html" ->
            MomaParseFromJsonPayloads(parse.args[1].events, parse.args[2], parse.args[3],
                                      << >>)

\* what the DOM fallback gives for the page of the call
FallbackRows ==
    CASE parse.fn = "parse_met_events_html" -> MetParseFromDom(parse.args[1], parse.args[2])
      [] parse.fn = "parse_mfa_events_html" ->
            MfaParseFromDomFallback(parse.args[1], parse.args[2])
      [] parse.fn = "parse_whitney_events_html" ->
            WhitneyParseFromDomFallback(parse.args[1], parse.args[2])
      [] parse.fn = "parse_moma_events_html" ->
            MomaParseFromDomFallback(parse.args[1], parse.args[2], parse.args[3],
                                     parse.args[4], parse.args[5])

\* a DOM strategy was run during the call
FallbackRan == \E k \in 1..Len(parse.result.ran) : parse.result.ran[k] # "json"

\* C12: in each of the four extractors, when the structured-payload
\* strategy yields at least one record for the page, exactly that list is
\* returned and no DOM strategy is run; a DOM strategy runs only when the
\* structured-payload strategy yields no record.
PayloadBeforeFallback ==
    PageParsed =>
        /\ (~PayloadRows.raised /\ PayloadRows.rows # << >>) =>
               /\ ~parse.result.raised
               /\ parse.result.rows = PayloadRows.rows
               /\ ~FallbackRan
        /\ FallbackRan => (~PayloadRows.raised /\ PayloadRows.rows = << >>)

\* a page whose payload and whose body both give records, other ones
PayloadBeforeFallbackWitness ==
    /\ PageParsed
    /\ PayloadRows.rows # << >>
    /\ ~FallbackRows.raised
    /\ FallbackRows.rows # << >>
    /\ FallbackRows.rows # PayloadRows.rows
    /\ parse.result.rows = PayloadRows.rows


\* the MET line walk was run by the call and let no exception out
MetWalked ==
    /\ PageParsed
    /\ parse.fn = "parse_met_events_html"
    /\ FallbackRan
    /\ ~parse.result.raised

MetLines == TextLines(parse.args[1].body)

\* the lines that start an event block: the known titles that are no date
\* headings and that the relevance filter lets through
MetBlockStarts ==
    {i \in 1..Len(MetLines) :
        /\ ~MetDateHeadingMatch(MetLines[i])
        /\ MetKnownTitle(MetEventAnchors(parse.args[1].body), MetLines[i])
        /\ ~IsIrrelevantItemText(Some(Render(MetLines[i])))}

\* a line that ends the block before it: a date heading or a known title
MetEndsBlock(j) ==
    \/ MetDateHeadingMatch(MetLines[j])
    \/ MetKnownTitle(MetEventAnchors(parse.args[1].body), MetLines[j])

\* the price-like lines of the block that starts at line i
MetPriceLines(i) ==
    {k \in (i + 1)..Len(MetLines) :
        /\ \A j \in (i + 1)..k : ~MetEndsBlock(j)
        /\ MetLooksLikePrice(Render(MetLines[k]))}

MetFirstPrice(i) == CHOOSE k \in MetPriceLines(i) : \A h \in MetPriceLines(i) : k <= h

\* the block has a price-like line and its first one does not say "free"
MetPricedNotFree(i) ==
    /\ MetPriceLines(i) # {}
    /\ ~Contains(Lower(Render(MetLines[MetFirstPrice(i)])), <<"f", "r", "e", "e">>)

RECURSIVE Ascending(_)
\* the numbers of a set, smallest first
Ascending(S) ==
    IF S = {} THEN << >>
    ELSE LET least == CHOOSE k \in S : \A h \in S : k <= h
         IN  <<least>> \o Ascending(S \ {least})

\* C13: the MET line walk, when it returns, drops an event block exactly
\* when the block has a price-like line and the first such line does not
\* contain "free" in any letter case; the rows it returns are the other
\* blocks in document order, with free status confirmed when the block has
\* a price-like line and inferred when it has none.
MetFreeOnly ==
    MetWalked =>
        LET kept == Ascending({i \in MetBlockStarts : ~MetPricedNotFree(i)})
        IN  /\ Len(parse.result.rows) = Len(kept)
            /\ \A n \in 1..Len(kept) :
                   /\ parse.result.rows[n].title = Render(MetLines[kept[n]])
                   /\ parse.result.rows[n].free_verification_status =
                          (IF MetPriceLines(kept[n]) # {} THEN "confirmed" ELSE "inferred")

\* a walk that drops a block on its first price-like line although a later
\* line of the block says "free"
MetFreeOnlyWitness ==
    /\ MetWalked
    /\ \E i \in MetBlockStarts :
           /\ MetPricedNotFree(i)
           /\ \E k \in MetPriceLines(i) :
                  Contains(Lower(Render(MetLines[k])), <<"f", "r", "e", "e">>)


\* C18: no row returned by a DOM fallback strategy (MET line walk, MFA line
\* walk, MFA and Whitney anchor containers, MoMA heading and anchor walk)
\* has a title that the relevance filter classifies as irrelevant.
FallbackTitlesRelevant ==
    (PageParsed /\ FallbackRan /\ ~parse.result.raised) =>
        \A n \in 1..Len(parse.result.rows) :
            ~IsIrrelevantItemText(Some(parse.result.rows[n].title))

\* the MFA line walk returns a row whose title is a filtered keyword
FallbackTitlesRelevantWitness ==
    /\ PageParsed
    /\ parse.fn = "parse_mfa_events_html"
    /\ ~parse.result.raised
    /\ parse.result.ran = <<"json", "lines">>
    /\ \E n \in 1..Len(parse.result.rows) :
           IsIrrelevantItemText(Some(parse.result.rows[n].title))


\* C19: extracting a page never raises because of one bad record: the bad
\* candidate is dropped and the call returns the rows of the other
\* candidates.
OneBadRecordNeverFails == PageParsed => ~parse.result.raised

\* the first embedded event of an MFA page is written "March 7, 2026
\* 13:00 PM", the next one is valid, and the call raises
OneBadRecordFails ==
    /\ PageParsed
    /\ parse.fn = "parse_mfa_events_html"
    /\ parse.result.raised
    /\ Len(parse.args[1].events) = 2
    /\ parse.args[1].events[1].start = Some(<<March7, ThirteenPm>>)
    /\ LET others == MfaParseFromJsonPayloads(Tail(parse.args[1].events), parse.args[2], << >>)
       IN  ~others.raised /\ others.rows # << >>


\* ---------------------------------------------------------- concurrent runs
\* Two invocations of upsert_extracted_activities for different sources,
\* each in the transaction of its own session (runner.py:108), take their
\* database steps in any order.  The models declare primary and foreign
\* keys only (models/activity.py:29-82), so no statement waits for or is
\* refused because of a row of the other transaction.

Runs == {1, 2}

RunUrl == <<UrlAx, UrlBx>>

EventUrlB == <<"https", "://", "b.org", "/e1">>

RunEventUrl == <<EventUrl1, EventUrlB>>

Frick == Some(<<"F", "r", "i", "c", "k">>)

\* the batches run r may be given: one candidate at the venue both runs
\* know, one without a venue, and the shared venue beside a second one
RunBatches(r) ==
    LET shared   == Cand(RunEventUrl[r], "T1", 1, 1, Met, Some(<<<<"A">>, <<"B">>>>[r]), Nyc, Some(<<"N", "Y">>))
        no_venue == Cand(RunEventUrl[r], "T2", 1, 2, None, None, None, None)
        other    == Cand(RunEventUrl[r], "T3", 2, 1, Frick, None, Nyc, Some(<<"N", "Y">>))
    IN  {<<shared>>, <<no_venue>>, <<other, shared>>, <<shared, shared>>}

\* the store in which both sources, the shared venue and an activity of
\* each source were committed by earlier invocations
SeededDb ==
    LET first  == AfterItems(EmptyDb, NewSource(EmptyDb, RunUrl[1], "static_html"),
                      <<Cand(RunEventUrl[1], "T1", 1, 2, Met, Some(<<"A">>), Nyc, Some(<<"N", "Y">>))>>, 0, 1)
        second == AfterItems(first, NewSource(first, RunUrl[2], "static_html"),
                      <<Cand(RunEventUrl[2], "T1", 1, 2, Met, Some(<<"B">>), Nyc, Some(<<"N", "Y">>))>>, 0, 1)
    IN  second

ConcStores == {EmptyDb, SeededDb}

\* the transaction isolation levels of MySQL under which a plain SELECT
\* takes no lock; the engine is made without one (db/session.py:11), so the
\* server's setting decides
IsolationLevels == {"REPEATABLE READ", "READ COMMITTED"}

\* a run that has not reached the session block yet
TxNew(source_url, extracted) ==
    [pc           |-> "start",
     url          |-> source_url,
     deduped      |-> Dedupe(extracted),
     now          |-> 0,
     snapshot     |-> EmptyDb,
     source       |-> None,
     new_sources  |-> {},
     existing     |-> {},
     found_venues |-> {},
     new_venues   |-> {}]

\* the rows a SELECT of run r reads: the committed rows (those of its first
\* read under REPEATABLE READ) and the rows the run itself has flushed
TxView(r) ==
    LET run  == txns.runs[r]
        base == IF txns.isolation = "REPEATABLE READ" /\ run.pc # "start"
                THEN run.snapshot
                ELSE store
    IN  [sources    |-> base.sources \cup run.new_sources,
         venues     |-> base.venues \cup run.new_venues,
         activities |-> base.activities]

\* the AUTO_INCREMENT primary keys of the rows of one INSERT
TxNumbered(rows, next_id) == {[row EXCEPT !.id = @ + next_id - 1] : row \in rows}

TxDesired(r) == DesiredVenues(txns.runs[r].deduped, << >>)

\* runner.py:76-88, the venues run r has to create, numbered from 1
TxMissingVenues(r, found) == CreateVenues(TxDesired(r), found, {})

ConcInit ==
    /\ univ = NoUniverse
    /\ store \in ConcStores
    /\ pre = store
    /\ last = NoRun
    /\ clock = 0
    /\ same = FALSE
    /\ fetch = FetchIdle
    /\ parse = ParseIdle
    /\ txns \in {[isolation |-> level,
                  next_id   |-> [sources    |-> NextId(store.sources),
                                 venues     |-> NextId(store.venues),
                                 activities |-> NextId(store.activities)],
                  runs      |-> <<TxNew(RunUrl[1], b1), TxNew(RunUrl[2], b2)>>] :
                     level \in IsolationLevels, b1 \in RunBatches(1), b2 \in RunBatches(2)}

\* runner.py:107-116: utcnow(), the session opens, SELECT the source
TxFindSource(r) ==
    /\ txns.runs[r].pc = "start"
    /\ LET found == FindSource(store, txns.runs[r].url)
       IN  IF found = {}
           THEN txns' = [txns EXCEPT !.runs[r].pc = "add source",
                                     !.runs[r].now = clock + 1,
                                     !.runs[r].snapshot = store]
           ELSE \E source \in found :
                    txns' = [txns EXCEPT !.runs[r].pc = "find activities",
                                         !.runs[r].now = clock + 1,
                                         !.runs[r].snapshot = store,
                                         !.runs[r].source = Some(source)]
    /\ clock' = clock + 1
    /\ UNCHANGED <<univ, store, pre, last, same, fetch, parse>>

\* runner.py:117-126: INSERT the source row and flush
TxAddSource(r) ==
    /\ txns.runs[r].pc = "add source"
    /\ LET source == [NewSource(TxView(r), txns.runs[r].url, "static_html")
                          EXCEPT !.id = txns.next_id.sources]
       IN  txns' = [txns EXCEPT !.runs[r].pc = "find activities",
                                !.runs[r].source = Some(source),
                                !.runs[r].new_sources = {source},
                                !.next_id.sources = @ + 1]
    /\ UNCHANGED <<univ, store, pre, last, clock, same, fetch, parse>>

\* runner.py:128-139: SELECT the activities of the source with the batch's keys
TxFindActivities(r) ==
    /\ txns.runs[r].pc = "find activities"
    /\ LET run  == txns.runs[r]
           keys == {IdentityKey(run.deduped[i]) : i \in 1..Len(run.deduped)}
       IN  txns' = [txns EXCEPT !.runs[r].pc = "find venues",
                                !.runs[r].existing =
                                    FindActivities(TxView(r), run.source[1].id, keys)]
    /\ UNCHANGED <<univ, store, pre, last, clock, same, fetch, parse>>

\* runner.py:53-74: SELECT the venues that carry a name of the batch
TxFindVenues(r) ==
    /\ txns.runs[r].pc = "find venues"
    /\ LET found == ExistingVenues(TxView(r), TxDesired(r))
       IN  txns' = [txns EXCEPT !.runs[r].found_venues = found,
                                !.runs[r].pc = IF TxMissingVenues(r, found) = {}
                                               THEN "commit"
                                               ELSE "add venues"]
    /\ UNCHANGED <<univ, store, pre, last, clock, same, fetch, parse>>

\* runner.py:76-92: INSERT the venues no row was found for and flush
TxAddVenues(r) ==
    /\ txns.runs[r].pc = "add venues"
    /\ LET missing == TxMissingVenues(r, txns.runs[r].found_venues)
       IN  txns' = [txns EXCEPT !.runs[r].pc = "commit",
                                !.runs[r].new_venues =
                                    TxNumbered(missing, txns.next_id.venues),
                                !.next_id.venues = @ + Cardinality(missing)]
    /\ UNCHANGED <<univ, store, pre, last, clock, same, fetch, parse>>

\* runner.py:143-187: the loop over the batch, whose INSERTs and UPDATEs
\* db.commit() flushes, and the commit
TxCommit(r) ==
    /\ txns.runs[r].pc = "commit"
    /\ LET run      == txns.runs[r]
           Known(item) == \E a \in run.existing : IdentityKey(a) = IdentityKey(item)
           Unknown(item) == ~Known(item)
           venues   == [venues |-> run.found_venues \cup run.new_venues]
           updated  == ApplyItems(SelectSeq(run.deduped, Known), run.existing,
                           run.existing, run.source[1].id, venues, run.now)
           inserted == ApplyItems(SelectSeq(run.deduped, Unknown), {}, {},
                           run.source[1].id, venues, run.now)
       IN  /\ store' = Commit(store,
                 [sources    |-> store.sources \cup run.new_sources,
                  venues     |-> store.venues \cup run.new_venues,
                  activities |-> {a \in store.activities : a.id \notin Ids(run.existing)}
                                     \cup updated
                                     \cup TxNumbered(inserted, txns.next_id.activities)])
           /\ txns' = [txns EXCEPT !.runs[r].pc = "done",
                                   !.next_id.activities = @ + Cardinality(inserted)]
    /\ UNCHANGED <<univ, pre, last, clock, same, fetch, parse>>

ConcNext ==
    \E r \in Runs :
        \/ TxFindSource(r)
        \/ TxAddSource(r)
        \/ TxFindActivities(r)
        \/ TxFindVenues(r)
        \/ TxAddVenues(r)
        \/ TxCommit(r)

\* two concurrent invocations for different sources
ConcSpec == ConcInit /\ [][ConcNext]_vars

\* ---------------------------------------- properties of concurrent runs

BothCommitted == txns # NoTxns /\ \A r \in Runs : txns.runs[r].pc = "done"

\* the stores an invocation of run r alone, with the inputs and the
\* timestamp it had, makes of db
SerialRun(db, r) ==
    LET run == txns.runs[r]
    IN  {Commit(db, AfterItems(db, source, run.deduped, run.now, Len(run.deduped))) :
            source \in SourceChoices(db, run.url, "static_html")}

\* the stores the two runs make of the store they started from when one
\* runs after the other
SerialStores ==
    UNION {UNION {SerialRun(db, order[2]) : db \in SerialRun(pre, order[1])} :
              order \in {<<1, 2>>, <<2, 1>>}}

\* a store without its primary keys: the rows of each table with the rows
\* they refer to in place of the keys, and the number of rows of each table
Shape(db) ==
    LET SourceOf(a) == (CHOOSE s \in db.sources : s.id = a.source_id).base_url
        VenueOf(a)  == IF a.venue_id = None
                       THEN None
                       ELSE Some([(CHOOSE v \in db.venues : v.id = a.venue_id[1])
                                     EXCEPT !.id = 0])
    IN  [sources    |-> {[s EXCEPT !.id = 0] : s \in db.sources},
         venues     |-> {[v EXCEPT !.id = 0] : v \in db.venues},
         activities |-> {[a EXCEPT !.id = 0, !.source_id = SourceOf(a),
                                   !.venue_id = VenueOf(a)] : a \in db.activities},
         rows       |-> <<Cardinality(db.sources), Cardinality(db.venues),
                          Cardinality(db.activities)>>]

OneVenuePerKey(db) ==
    \A v \in db.venues : \A w \in db.venues : VenueRowKey(v) = VenueRowKey(w) => v = w

OneActivityPerKey(db) ==
    \A a \in db.activities : \A b \in db.activities :
        (a.source_id = b.source_id /\ IdentityKey(a) = IdentityKey(b)) => a = b

\* C20: when two invocations for different sources run concurrently, each
\* in its own transaction, every interleaving of their lookups, inserts and
\* commits ends in a store that one of the two serial orders of the runs
\* gives, with one Activity row per identity key per Source and one Venue
\* row per (name, city, state), also when both batches name the same venue.
ConcurrentRunsSerializable ==
    BothCommitted =>
        /\ \E serial \in SerialStores : Shape(store) = Shape(serial)
        /\ OneActivityPerKey(store)
        /\ OneVenuePerKey(store)

\* both runs looked the shared venue up before either committed it, and
\* both inserted it
ConcurrentRunsDuplicateVenue ==
    /\ BothCommitted
    /\ \A r \in Runs : txns.runs[r].new_venues # {}
    /\ \E v \in store.venues : \E w \in store.venues :
           v # w /\ VenueRowKey(v) = VenueRowKey(w)


\* ------------------------------------------------ the heading-driven walks

\* the date headings of the MET text lines that stand before line i
MetHeadingsBefore(i) == {h \in 1..(i - 1) : MetDateHeadingMatch(MetLines[h])}

\* the date the MET walk holds when it reaches line i: that of the last
\* date heading before the line, and today's when there is none
MetCursorAt(i) ==
    IF MetHeadingsBefore(i) = {} THEN parse.args[2].date
    ELSE LET last_heading == CHOOSE h \in MetHeadingsBefore(i) :
                                 \A g \in MetHeadingsBefore(i) : g <= h
         IN  MetParseDateHeading(MetLines[last_heading][1], parse.args[2]).value[1].date

\* the blocks the MET walk keeps, in document order
MetKept == Ascending({i \in MetBlockStarts : ~MetPricedNotFree(i)})

\* every row of the MET walk has the date of the last date heading before
\* the title line of its block
MetCursorDates ==
    MetWalked =>
        \A n \in 1..Len(parse.result.rows) :
            /\ n <= Len(MetKept)
            /\ parse.result.rows[n].start_at.date = MetCursorAt(MetKept[n])

\* the MoMA walk was run by the call and let no exception out
MomaWalked ==
    /\ PageParsed
    /\ parse.fn = "parse_moma_events_html"
    /\ FallbackRan
    /\ ~parse.result.raised

MomaNodes == parse.args[1].body

\* the day the URL of the list or the clock gives
MomaDefaultDay == MomaExtractBaseDay(parse.args[4], parse.args[5])

\* the h2 elements before node k whose text is a date heading
MomaHeadingsBefore(k) ==
    {h \in 1..(k - 1) :
        /\ MomaNodes[h].tag = "h2"
        /\ MomaParseHeadingDay(Flatten(MomaNodes[h].lines), MomaDefaultDay).value # None}

\* the day the MoMA walk holds when it reaches node k
MomaCursorAt(k) ==
    IF MomaHeadingsBefore(k) = {} THEN MomaDefaultDay
    ELSE LET last_heading == CHOOSE h \in MomaHeadingsBefore(k) :
                                 \A g \in MomaHeadingsBefore(k) : g <= h
         IN  MomaParseHeadingDay(Flatten(MomaNodes[last_heading].lines),
                                 MomaDefaultDay).value[1]

\* the anchors of the page that the MoMA walk makes rows of
MomaEntries ==
    {k \in 1..Len(MomaNodes) :
        /\ MomaNodes[k].tag = "a"
        /\ HasPath(MomaNodes[k].href, {"/calendar/events/"})
        /\ MomaNodes[k].lines # << >>
        /\ NormalizeSpace(Render(MomaNodes[k].lines[1])) # << >>
        /\ ~IsIrrelevantItemText(Some(NormalizeSpace(Render(MomaNodes[k].lines[1]))))}

\* row is a row of the anchor at node k
MomaRowOf(row, k) ==
    /\ row.source_url = UrlJoin(parse.args[3], MomaNodes[k].href)
    /\ row.title = NormalizeSpace(Render(MomaNodes[k].lines[1]))
    /\ row.description = (IF MomaDetailLines(MomaNodes[k].lines) = << >> THEN None
                          ELSE Some(JoinBar([d \in 1..Len(MomaDetailLines(MomaNodes[k].lines)) |->
                                   NormalizeSpace(Render(MomaDetailLines(MomaNodes[k].lines)[d]))])))

\* every anchor entry has a row with the day of the last date heading
\* before it, and every row is such a row
MomaCursorDates ==
    MomaWalked =>
        /\ \A k \in MomaEntries : \E n \in 1..Len(parse.result.rows) :
               /\ MomaRowOf(parse.result.rows[n], k)
               /\ parse.result.rows[n].start_at.date = MomaCursorAt(k)
        /\ \A n \in 1..Len(parse.result.rows) : \E k \in MomaEntries :
               /\ MomaRowOf(parse.result.rows[n], k)
               /\ parse.result.rows[n].start_at.date = MomaCursorAt(k)

\* C21: in the heading-driven DOM walks (MET text lines, MoMA h2 and anchor
\* walk) the date of each record is the date of the most recent date
\* heading that precedes the entry in document order, and the starting
\* date of the walk when no heading precedes it; a heading changes the
\* date only of the entries after it, up to the next heading, and text
\* that does not match the date-heading pattern never changes the cursor.
CursorDates == MetCursorDates /\ MomaCursorDates

\* a MET walk over a date heading, a line that only starts like a later
\* heading, and an entry, which gets the date of the heading
CursorDatesWitness ==
    /\ MetWalked
    /\ \E h \in 1..(Len(MetLines) - 2) :
           /\ MetLines[h] = <<SaturdayMarch7>>
           /\ MetLines[h + 1] = <<SundayMarch8, Words(<<"o", "n", "l", "y">>)>>
           /\ h + 2 \in MetBlockStarts
           /\ parse.result.rows[1].start_at.date = <<2026, 3, 7>>


\* ------------------------------------------------- records and their dates

\* the pieces written on the page of the call: those of the lines of its
\* body and those of the start texts of its event objects
PagePieces ==
    UNION {UNION {SeqToSet(line) : line \in SeqToSet(element.lines)} :
              element \in SeqToSet(parse.args[1].body)}
      \cup UNION {IF event.start = None THEN {} ELSE SeqToSet(event.start[1]) :
                     event \in SeqToSet(parse.args[1].events)}

\* the dates the page of the call writes out, in words or as a timestamp
WrittenDates ==
    {StrptimeDate(piece)[1] :
        piece \in {q \in PagePieces : q.t = "date" /\ StrptimeDate(q) # None}}
      \cup {piece.date : piece \in {q \in PagePieces : q.t = "iso" /\ IsDate(q.date)}}

\* the page of the call writes no date and no date heading
NoDateOnPage == WrittenDates = {} /\ \A piece \in PagePieces : piece.t # "heading"

\* C22 as it is claimed: no extractor produces a record for an entry for
\* which no textual date is available; on a page that writes no date and
\* no date heading, no record is returned.
NoDateNoRecord ==
    (PageParsed /\ ~parse.result.raised /\ NoDateOnPage) => parse.result.rows = << >>

\* C22: the MFA and Whitney extractors and the structured-payload
\* strategies of MET and MoMA return a record only with a date that the
\* page writes out, so an entry with a time and no date yields none; the
\* MET and MoMA DOM walks return a record for an entry that no date
\* heading precedes, dated with the day of the run (MoMA: the day the list
\* URL names, else the day of the run).
DateRequiredOutsideWalks ==
    /\ (/\ PageParsed
        /\ ~parse.result.raised
        /\ \/ parse.fn \in {"parse_mfa_events_html", "parse_whitney_events_html"}
           \/ ~FallbackRan) =>
           \A n \in 1..Len(parse.result.rows) :
               parse.result.rows[n].start_at.date \in WrittenDates
    /\ (MetWalked /\ MetHeadingsBefore(Len(MetLines) + 1) = {}) =>
           /\ Len(parse.result.rows) = Len(MetKept)
           /\ \A n \in 1..Len(parse.result.rows) :
                  parse.result.rows[n].start_at.date = parse.args[2].date
    /\ (MomaWalked /\ MomaHeadingsBefore(Len(MomaNodes) + 1) = {}) =>
           /\ \A k \in MomaEntries : \E n \in 1..Len(parse.result.rows) :
                  MomaRowOf(parse.result.rows[n], k)
           /\ \A n \in 1..Len(parse.result.rows) :
                  parse.result.rows[n].start_at.date = MomaDefaultDay

\* the MET walk over a title and a time line with no date heading: a
\* record at that time on the day of the run
DateRequiredOutsideWalksWitness ==
    /\ MetWalked
    /\ MetLines = << <<Words(<<"A", "r", "t">>)>>, <<HalfPastTwo, Words(<<"H", "a", "l", "l">>)>> >>
    /\ Len(parse.result.rows) = 1
    /\ parse.result.rows[1].start_at = At(Today.date, 14, 30)


\* ------------------------------- the date and time parsers, one call each

\* the headings "Saturday, <month> <day>" the heading parser is called on
HeadingMonths ==
    { <<"J", "a", "n", "u", "a", "r", "y">>, <<"F", "e", "b", "r", "u", "a", "r", "y">>,
      <<"M", "a", "r", "c", "h">>, <<"d", "e", "c", "e", "m", "b", "e", "r">>,
      <<"M", "a", "r">>, <<"S", "e", "p", "t">> }

HeadingDays == {1, 2, 28, 29, 30, 31}

\* the times of the runs: around the turn of the year and 300 days after
\* the first of March, in a common year and in a leap year
RunYears == {2026, 2028}

RunDays == { <<1, 1>>, <<3, 1>>, <<10, 28>>, <<12, 25>>, <<12, 26>>, <<12, 27>>, <<12, 31>> }

RunClocks == { <<0, 0>>, <<0, 1>>, <<23, 59>> }

RunTimes == {At(<<y, d[1], d[2]>>, c[1], c[2]) : y \in RunYears, d \in RunDays, c \in RunClocks}

DateCalls ==
    {Called("_parse_date_heading",
            <<WrittenHeading(<<"S", "a", "t", "u", "r", "d", "a", "y">>, m, d), now>>) :
        m \in HeadingMonths, d \in HeadingDays, now \in RunTimes}

DateInit ==
    /\ univ = NoUniverse
    /\ store = EmptyDb
    /\ pre = EmptyDb
    /\ last = NoRun
    /\ clock = 0
    /\ same = FALSE
    /\ fetch = FetchIdle
    /\ txns = NoTxns
    /\ parse \in DateCalls

CallMetParseDateHeading ==
    /\ parse.pc = "called"
    /\ parse.fn = "_parse_date_heading"
    /\ Returns(MetParseDateHeading(parse.args[1], parse.args[2]))

DateNext == CallMetParseDateHeading

\* One call of one date or time parser on one input.
DateSpec == DateInit /\ [][DateNext]_vars

\* --------------------------------------- properties of the date parsers

\* the minutes from the start of year 1 to a time
MinutesAt(time) == (Ordinal(time.date) * 24 + time.hour) * 60 + time.minute

\* the heading of the call names a real date of the year of the run, with
\* a full month name
HeadingBase ==
    <<parse.args[2].date[1], MonthIn(FullMonthNames, parse.args[1].month), parse.args[1].day>>

HeadingIsReal == HeadingBase[2] # 0 /\ IsDate(HeadingBase)

\* the date of the heading lies more than 300 days before the run
HeadingIsOld ==
    MinutesAt(parse.args[2]) - MinutesAt(At(HeadingBase, 0, 0)) > 300 * 24 * 60

HeadingNextYear == <<HeadingBase[1] + 1, HeadingBase[2], HeadingBase[3]>>

Renders == {i \in 1..Len(Ev) : Ev[i].e = "render"}

\* the direct HTTP loop is over when event i comes: it made no attempt at
\* all, or its last attempt was the last one allowed or got a status that
\* is not retried
LoopEndedBefore(i) ==
    IF i = 1 THEN fetch.max_attempts = 0
    ELSE /\ Ev[i - 1].e = "get"
         /\ \/ Ev[i - 1].attempt = fetch.max_attempts
            \/ IsFatalStatus(Ev[i - 1])

\* C24: in the MET fetcher the rendered-page fallback is started at most
\* once per fetch, only after the direct HTTP loop has ended without a
\* response below 400 and only when the fallback is enabled; it is never
\* started after a successful response, and when it succeeds the fetch
\* returns the rendered HTML instead of raising.  No other fetcher starts it.
FallbackOnceAfterLoop ==
    Fetching =>
        /\ Cardinality(Renders) <= 1
        /\ \A i \in Renders :
               /\ fetch.adapter = "met"
               /\ fetch.use_playwright_fallback
               /\ i = Len(Ev)
               /\ LoopEndedBefore(i)
               /\ \A j \in 1..(i - 1) :
                      Ev[j].e = "get" => (Ev[j].kind = "error" \/ Ev[j].status >= 400)
               /\ Ev[i].ok => (fetch.pc = "done" /\ fetch.result = "rendered html")
        /\ (\E j \in Gets : Ev[j].kind = "response" /\ Ev[j].status < 400) =>
               (Renders = {} /\ fetch.pc = "done" /\ fetch.result = "html")
        /\ fetch.result = "rendered html" => \E i \in Renders : Ev[i].ok

\* a MET fetch whose attempts all failed in a retriable way and whose
\* fallback then gave the rendered HTML
FallbackOnceAfterLoopWitness ==
    /\ Fetching
    /\ fetch.adapter = "met"
    /\ fetch.max_attempts >= 2
    /\ Cardinality(Gets) = fetch.max_attempts
    /\ \A i \in Gets : IsRetriableFailure(Ev[i])
    /\ Renders # {}
    /\ fetch.result = "rendered html"


\* --------------------------------------------------- venues across runs

\* the rows of the venues table of db that stand for the venue key of c
VenuesOfKey(db, c) ==
    {v \in db.venues :
        <<v.name, NormalizeOptionalText(v.city), NormalizeState(v.state)>> = VenueKeyTriple(c)}

\* C25: once a Venue row exists, a later invocation whose candidates have
\* the same (name, city, state) reuses that row as it is: it creates no
\* second row for the triple and changes none of the row's fields, not even
\* the address when the row has none and the later candidate supplies one;
\* the activities of those candidates are attached to the row.
VenueReusedAsIs ==
    last.ok =>
        /\ pre.venues \subseteq store.venues
        /\ \A v \in store.venues \ pre.venues : \A w \in pre.venues :
               /\ v.id # w.id
               /\ <<v.name, v.city, v.state>> # <<w.name, w.city, w.state>>
        /\ \A j \in 1..Len(last.ret) :
               (HasVenueKey(last.ret[j]) /\ VenuesOfKey(pre, last.ret[j]) # {}) =>
                   /\ VenuesOfKey(store, last.ret[j]) = VenuesOfKey(pre, last.ret[j])
                   /\ Cardinality(VenuesOfKey(store, last.ret[j])) = 1
                   /\ \A v \in VenuesOfKey(pre, last.ret[j]) :
                          RowFor(last.ret[j]).venue_id = Some(v.id)

\* a run whose candidate brings a location text for the venue key of a row
\* that an earlier run created without address: the row still has none
VenueReusedAsIsWitness ==
    /\ RanOk
    /\ \E j \in 1..Len(last.ret) : \E v \in pre.venues :
           /\ HasVenueKey(last.ret[j])
           /\ v \in VenuesOfKey(pre, last.ret[j])
           /\ v.address = None
           /\ NormalizeOptionalText(last.ret[j].location_text) # None
           /\ v \in store.venues
           /\ RowFor(last.ret[j]).venue_id = Some(v.id)


\* ------------------------------------------------ the MET event blocks

\* the lines of the block that starts at the title line i: those after it
\* up to the next date heading or known title
MetBlockLines(i) ==
    {k \in (i + 1)..Len(MetLines) : \A j \in (i + 1)..k : ~MetEndsBlock(j)}

\* the first line of the block of line i that is in the set hits, if any
MetFirstOf(i, hits) ==
    IF MetBlockLines(i) \cap hits = {} THEN << >>
    ELSE <<Render(MetLines[CHOOSE k \in MetBlockLines(i) \cap hits :
                               \A h \in MetBlockLines(i) \cap hits : k <= h])>>

MetTimeLinesOfPage == {k \in 1..Len(MetLines) : MetTimeLocationMatch(MetLines[k])}

MetPriceLinesOfPage == {k \in 1..Len(MetLines) : MetLooksLikePrice(Render(MetLines[k]))}

MetDescriptionLinesOfPage == (1..Len(MetLines)) \ (MetTimeLinesOfPage \cup MetPriceLinesOfPage)

\* description, time line and price line of the block, joined as the row has them
MetBlockText(i) ==
    MetFirstOf(i, MetDescriptionLinesOfPage) \o MetFirstOf(i, MetTimeLinesOfPage)
        \o MetFirstOf(i, MetPriceLinesOfPage)

\* the time of day the first time line of the block gives, midnight without one
MetBlockClock(i) ==
    IF MetBlockLines(i) \cap MetTimeLinesOfPage = {} THEN <<0, 0>>
    ELSE LET written == MetLines[CHOOSE k \in MetBlockLines(i) \cap MetTimeLinesOfPage :
                            \A h \in MetBlockLines(i) \cap MetTimeLinesOfPage : k <= h][1]
             time == Strptime12(written.hour, MinuteOf(written), written.space,
                                written.meridiem)
         IN  time[1]

\* the index the walk goes to from line i
MetStep(i) ==
    IF i \in MetBlockStarts
    THEN MetBlockStop(MetLines, MetEventAnchors(parse.args[1].body), i)
    ELSE i + 1

\* C26: in the MET line-cursor walk an event block runs from a known-title
\* line to just before the next date heading or known-title line: its
\* description, time and price are the first matching lines inside that
\* block and never come from another event's block, every line belongs to
\* at most one block, and the line index strictly increases at every step.
MetBlocks ==
    MetWalked =>
        /\ \A n \in 1..Len(parse.result.rows) :
               /\ n <= Len(MetKept)
               /\ parse.result.rows[n].title = Render(MetLines[MetKept[n]])
               /\ parse.result.rows[n].description =
                      (IF MetBlockText(MetKept[n]) = << >> THEN None
                       ELSE Some(JoinBar(MetBlockText(MetKept[n]))))
               /\ <<parse.result.rows[n].start_at.hour, parse.result.rows[n].start_at.minute>>
                      = MetBlockClock(MetKept[n])
        /\ \A i \in MetBlockStarts : \A k \in MetBlockStarts :
               i # k => /\ MetBlockLines(i) \cap MetBlockLines(k) = {}
                        /\ k \notin MetBlockLines(i)
        /\ \A i \in 1..Len(MetLines) : MetStep(i) > i /\ MetStep(i) <= Len(MetLines) + 1

\* a walk over two blocks where the first has no line of its own and the
\* second has a time line: the first row has no description and starts at
\* midnight, the second starts at the time of its line
MetBlocksWitness ==
    /\ MetWalked
    /\ Len(parse.result.rows) = 2
    /\ Len(MetKept) = 2
    /\ MetBlockLines(MetKept[1]) = {}
    /\ MetBlockLines(MetKept[2]) \cap MetTimeLinesOfPage # {}
    /\ parse.result.rows[1].description = None
    /\ parse.result.rows[1].start_at.hour = 0
    /\ parse.result.rows[2].start_at.hour = 14


\* ------------------------------------------- the single-page ingestion

\* an event page: the text of its first h1 element, if it has one, and the
\* rest of its markup
EventPage(h1, rest) == [h1 |-> h1, rest |-> rest]

\* the characters of the markup, html
HtmlOf(page) == (IF page.h1 = None THEN << >> ELSE page.h1[1]) \o page.rest

DropInWords == <<"d", "r", "o", "p", " ", "i", "n">>

NoRegistrationWords ==
    <<"n", "o", " ", "r", "e", "g", "i", "s", "t", "r", "a", "t", "i", "o", "n">>

UntitledActivity ==
    <<"U", "n", "t", "i", "t", "l", "e", "d", " ", "a", "c", "t", "i", "v", "i", "t", "y">>

\* hardcoded.py:9-37 extract_from_event_page; utcnow is what
\* datetime.utcnow() reads during the call
ExtractFromEventPage(source_url, html, utcnow) ==
    LET title == IF html.h1 # None THEN Strip(html.h1[1]) ELSE UntitledActivity
        drops == Contains(Lower(HtmlOf(html)), DropInWords)
    IN  IF IsIrrelevantItemText(Some(title))
        THEN << >>
        ELSE << [source_url               |-> source_url,
                 title                    |-> title,
                 description              |-> None,
                 venue_name               |-> None,
                 location_text            |-> None,
                 city                     |-> None,
                 state                    |-> None,
                 activity_type            |-> IF drops THEN Some("drop-in") ELSE None,
                 age_min                  |-> None,
                 age_max                  |-> None,
                 drop_in                  |-> IF drops THEN Some(TRUE) ELSE None,
                 registration_required    |->
                     IF Contains(Lower(HtmlOf(html)), NoRegistrationWords)
                     THEN Some(FALSE) ELSE None,
                 start_at                 |-> utcnow,
                 end_at                   |-> None,
                 timezone                 |-> "America/Los_Angeles",
                 free_verification_status |-> "inferred"] >>

EventPages ==
    { EventPage(Some(<<"A", "r", "t">>), << >>),
      EventPage(Some(<<" ", "A", "r", "t", " ">>), <<"N", "o", " ", "R", "e", "g", "i", "s", "t", "r", "a", "t", "i", "o", "n">>),
      EventPage(Some(<<"D", "r", "o", "p", " ", "I", "n", " ", "A", "r", "t">>), << >>),
      EventPage(None, <<"d", "r", "o", "p", " ", "i", "n">>),
      EventPage(None, << >>),
      EventPage(Some(<<" ">>), << >>),
      EventPage(Some(<<"S", "h", "o", "p">>), << >>) }

\* Each behaviour ingests one page, again and again.
PageUniverses ==
    {[name |-> "single page", urls |-> {u}, longer |-> 1, batch |-> 1, cands |-> {},
      html |-> page] : u \in {UrlAx, UrlFileX}, page \in EventPages}

PageInit ==
    /\ univ \in PageUniverses
    /\ store = EmptyDb
    /\ pre = EmptyDb
    /\ last = NoRun
    /\ clock = 0
    /\ same = FALSE
    /\ fetch = FetchIdle
    /\ parse = ParseIdle
    /\ txns = NoTxns

\* runner.py:192-203 run_single_page.  The extractor reads the clock after
\* the last invocation did and not after this invocation's upsert does: the
\* clock has ticked since the last reading (tick = 1) or it has not.
RunSinglePage(source_url, html) ==
    \E tick \in 0..1 :
        Upsert(source_url, ExtractFromEventPage(source_url, html, clock + tick),
               "static_html")

PageNext == \E u \in univ.urls : RunSinglePage(u, univ.html)

\* the same page, ingested again and again
PageSpec == PageInit /\ [][PageNext]_vars

\* C27: ingesting the same page twice with run_single_page (same source_url
\* and same html) leaves a single Activity row for it: the second run
\* updates the row created by the first run instead of inserting another one.
SamePageOneRow ==
    (clock = 2 /\ last.ok /\ last.ret # << >>) =>
        /\ Cardinality(store.activities) = 1
        /\ {a.id : a \in store.activities} = {a.id : a \in pre.activities}

\* the same page ingested twice, the clock having ticked in between: two
\* Activity rows with its URL and title, one per start_at
SamePageTwoRows ==
    /\ clock = 2
    /\ last.ok
    /\ Cardinality(pre.activities) = 1
    /\ Cardinality(store.activities) = 2
    /\ \A a \in store.activities : \A b \in store.activities :
           /\ a.source_url = b.source_url
           /\ a.title = b.title
           /\ a.source_id = b.source_id
           /\ (a # b => a.start_at # b.start_at)


\* ------------------------------------------------- the stamps of a row

\* C28: in every reachable store state each Activity row satisfies
\* first_seen_at <= last_seen_at and last_seen_at = updated_at, the run
\* times of successive invocations not decreasing.
SeenStampsOrdered ==
    \A a \in store.activities :
        /\ a.first_seen_at <= a.last_seen_at
        /\ a.last_seen_at = a.updated_at
        /\ a.last_seen_at <= clock

\* a store with a row that a later run updated and a row that was written once
SeenStampsOrderedWitness ==
    /\ RanOk
    /\ \E a \in store.activities : \E b \in store.activities :
           /\ a.first_seen_at < a.last_seen_at
           /\ a.last_seen_at = last.now
           /\ a.updated_at = last.now
           /\ b.first_seen_at = b.last_seen_at
           /\ b.last_seen_at < last.now


\* ------------------------------------- the time fragments, one call each

FragmentHours == {0, 1, 2, 11, 12, 13, 23, 99}

FragmentMinutes == {None, Some(0), Some(30), Some(59), Some(75)}

FragmentMeridiems == { <<"A", "M">>, <<"P", "M">>, <<"a", "m">>, <<"p", ".", "m", ".">> }

\* the clock times as a page may write them: an hour of one or two digits,
\* a minute of two digits or none, a meridiem
TimeFragments ==
    {WrittenTime(h, m, space, mer) :
        h \in FragmentHours, m \in FragmentMinutes, space \in BOOLEAN,
        mer \in FragmentMeridiems}

TimeParsers ==
    {"mfa._parse_datetime", "whitney._parse_datetime",
     "moma._parse_start_datetime_for_day", "met._parse_start_datetime"}

TimeCalls == {Called(fn, <<fragment>>) : fn \in TimeParsers, fragment \in TimeFragments}

TimeInit ==
    /\ univ = NoUniverse
    /\ store = EmptyDb
    /\ pre = EmptyDb
    /\ last = NoRun
    /\ clock = 0
    /\ same = FALSE
    /\ fetch = FetchIdle
    /\ txns = NoTxns
    /\ parse \in TimeCalls

\* mfa.py:357-411 on "March 7, 2026" followed by the fragment
CallMfaParseDatetime ==
    /\ parse.pc = "called"
    /\ parse.fn = "mfa._parse_datetime"
    /\ Returns(MfaParseDatetime(Some(<<March7, parse.args[1]>>)))

\* whitney.py:345-404 on "March 7, 2026" followed by the fragment
CallWhitneyParseDatetime ==
    /\ parse.pc = "called"
    /\ parse.fn = "whitney._parse_datetime"
    /\ Returns(WhitneyParseDatetime(Some(<<March7, parse.args[1]>>)))

\* moma.py:473-486 on a title that is the fragment, without detail lines
CallMomaParseStartDatetimeForDay ==
    /\ parse.pc = "called"
    /\ parse.fn = "moma._parse_start_datetime_for_day"
    /\ Returns(MomaParseStartDatetimeForDay(<<2026, 3, 7>>, << <<parse.args[1]>> >>))

\* met.py:362-380 on a time line that is the fragment
CallMetParseStartDatetime ==
    /\ parse.pc = "called"
    /\ parse.fn = "met._parse_start_datetime"
    /\ Returns(MetParseStartDatetime(None, Some(<<parse.args[1]>>), Today))

TimeNext ==
    \/ CallMfaParseDatetime
    \/ CallWhitneyParseDatetime
    \/ CallMomaParseStartDatetimeForDay
    \/ CallMetParseStartDatetime

\* One call of one adapter's start-time parser on one time fragment.
TimeSpec == TimeInit /\ [][TimeNext]_vars

\* C29: every time fragment accepted by the time patterns (an hour of one
\* or two digits, an optional two-digit minute, AM or PM) is converted to
\* an hour in 0..23 and a minute in 0..59, so building the start timestamp
\* never fails on an out-of-range hour or minute.
TimeFragmentInRange ==
    (parse.pc = "returned" /\ parse.fn \in TimeParsers) =>
        /\ ~parse.result.raised
        /\ parse.result.value # None =>
               /\ parse.result.value[1].hour \in 0..23
               /\ parse.result.value[1].minute \in 0..59

\* "13 PM" after a date: the MFA parser computes hour 25 and lets the
\* ValueError of datetime.replace out
ThirteenPmRaises ==
    /\ Returned("mfa._parse_datetime")
    /\ parse.args[1] = WrittenTime(13, None, TRUE, <<"P", "M">>)
    /\ MfaTo24h(13, 0, <<"P", "M">>) = <<25, 0>>
    /\ parse.result.raised


\* ------------------------------------------------ the Source of a batch

\* the Source rows the latest invocation attached its batch to
SourceUsed == {s \in store.sources : s.id = last.source_id}

\* C30: a batch is attached to an existing Source only if that Source has
\* the same scheme+host as the batch's source URL; batches whose URLs have
\* different hosts (for example https://a.org/x and https://a.org.uk/x)
\* never resolve to the same Source row.
SourceOfSameHost ==
    RanOk =>
        \A s \in SourceUsed \cap pre.sources :
            /\ UrlParse(s.base_url).scheme = UrlParse(last.url).scheme
            /\ UrlParse(s.base_url).netloc = UrlParse(last.url).netloc

\* the batch of https://a.org.uk/x is attached to the Source that an
\* earlier batch of host a.org created, and no Source is created for a.org.uk
SourceOfOtherHost ==
    /\ RanOk
    /\ last.url = UrlAukx
    /\ store.sources = pre.sources
    /\ \E s \in SourceUsed \cap pre.sources :
           /\ s.base_url = <<"https", "://", "a.org">>
           /\ UrlParse(last.url).netloc = <<"a.org", ".uk">>
           /\ \A a \in store.activities \ pre.activities : a.source_id = s.id

====
